---- MODULE Spec2Model ----
(***************************************************************************)
(* A model of pisama-claude-code: the trace converter (TraceConverter),    *)
(* the dual-write trace storage (TraceStorage: JSONL append log + SQLite   *)
(* index with lazy schema migration), the capture hook and the CLI's       *)
(* normalize_trace, the Guardian and the guardian hook.                    *)
(*                                                                         *)
(* Specifications                                                          *)
(*   SpecStore    the capture hook and retried writes on a fresh store,    *)
(*                with I/O failures                                        *)
(*   SpecQuery    spans stored under two sessions, and the queries         *)
(*   SpecMigrate  _init_db on pre-existing backing stores, then store      *)
(*   SpecNorm     the normalizers as functions of the raw event            *)
(*   SpecGuard    Guardian.analyze in every mode, one session              *)
(*   SpecAuto     Guardian.analyze in auto mode, two sessions              *)
(*   SpecHook     the capture hook and the guardian hook on one store      *)
(*   SpecLoop     the loop test of the fallback detector                   *)
(*   SpecTrace    one TraceConverter through to_span and reset_session     *)
(*   SpecShape    load_recent_traces over both archive shapes              *)
(*   SpecPayload  to_span on raw events with every kind of payload         *)
(*   SpecBlock    inject_fix and unblock_session on one adapter            *)
(*   SpecCapture  the capture hook and its fallback on any stdin           *)
(*   SpecTokenize tokenize_trace_data as a function of the trace           *)
(*   SpecSanitize prepare_sync_payload as a function of the trace          *)
(*   SpecLoad     load_recent_traces over several daily files              *)
(*   SpecRecommend _get_recommendation over lists of detector results      *)
(*   SpecHookAuto the guardian hook, one process per call, in auto mode    *)
(*   SpecWarn     Guardian.analyze with quiet detectors and any score      *)
(*   SpecDisabled Guardian.analyze on a store the capture hook writes to   *)
(*   SpecPrefer   normalize_trace on records carrying both shapes          *)
(*   SpecAppend   every operation on the store, for events of two days     *)
(*   SpecFix      Guardian.analyze in each mode with unblock_session       *)
(*   SpecOpen     concurrent _init_db on an old table, with a writer       *)
(*   SpecWriters  concurrent store calls on one partition and index        *)
(***************************************************************************)
EXTENDS Integers, Sequences, FiniteSets, TLC

VARIABLES
    clock,           \* wall clock in whole seconds (CURRENT_TIMESTAMP, datetime.now)
    columns,         \* columns of table traces; {} when the table does not exist
    indexes,         \* names of the indexes of the database
    rows,            \* rows of table traces, in rowid order
    nextRowId,       \* next AUTOINCREMENT id
    jsonl,           \* lines of the traces-<date>.jsonl files, in append order
    session_traces,  \* TraceConverter._session_traces: session id -> trace id
    nextUuid,        \* source of uuid.uuid4() values
    env,             \* os.environ.get("CLAUDE_SESSION_ID"), a JSON value or Absent
    lastOp,          \* the last operation, its arguments and what it returned
    config,          \* Guardian.config, a GuardianConfig
    _fix_counts,     \* Guardian._fix_counts: session id -> auto fixes applied
    _blocked_sessions, \* ClaudeCodeAdapter._blocked_sessions
    alert,           \* content of /tmp/pisama-alert.json, Null when never written
    audit,           \* records of audit_log.jsonl, in append order
    procs,           \* the processes running concurrently: position and locals
    db_lock          \* the process holding the write lock of pisama.db, 0 if none

\* the state of a Guardian and of the adapter it owns
guardianVars == <<config, _fix_counts, _blocked_sessions, alert, audit>>

vars == <<clock, columns, indexes, rows, nextRowId, jsonl, session_traces,
          nextUuid, env, lastOp, config, _fix_counts, _blocked_sessions, alert,
          audit, procs, db_lock>>

----------------------------------------------------------------------------
(* Bounds of the model *)

MaxClock == 1
MaxStored == 2
\* every store draws at most two uuids
MaxUuid == 2 * MaxStored + 1

\* no process runs concurrently with the caller
NoProcs == <<>>

----------------------------------------------------------------------------
(* JSON values: a kind and a payload.  Falsy payloads are the ones Python  *)
(* treats as false: None, 0, "", [], {}.                                   *)

JV(k, v) == [k |-> k, v |-> v]
Absent == JV("absent", "")
Null == JV("null", "")
Str(s) == JV("str", s)
Num(n) == JV("num", n)
EmptyList == JV("list", "[]")
SomeList == JV("list", "[x]")
EmptyMap == JV("map", "{}")
SomeMap == JV("map", "{k:v}")

Truthy(x) ==
    CASE x.k \in {"absent", "null"} -> FALSE
      [] x.k = "str" -> x.v # ""
      [] x.k = "num" -> x.v # "0"
      [] x.k = "list" -> x.v # "[]"
      [] x.k = "map" -> x.v # "{}"
      [] OTHER -> TRUE

IsStr(x) == x.k = "str"
IsDict(x) == x.k \in {"map", "wrapped"}
Hashable(x) == x.k \notin {"list", "map", "wrapped"}

\* dict.get(key): None when the key is missing
Get(d, key) == IF d[key].k = "absent" THEN Null ELSE d[key]
\* dict.get(key, default)
GetD(d, key, default) == IF d[key].k = "absent" THEN default ELSE d[key]
\* key in dict
Has(d, key) == d[key].k # "absent"
\* a or b
Or(a, b) == IF Truthy(a) THEN a ELSE b

\* uuid.uuid4(): the n-th value drawn, as a string
Uuid(n) == Str(ToString(n))

----------------------------------------------------------------------------
(* TraceConverter *)

HookKeys == {"tool_name", "tool", "tool_input", "input", "tool_output", "output",
             "tool_response", "session_id", "error", "working_dir",
             "conversation_id", "model"}

\* a raw hook event with no key at all
EmptyEvent == [key \in HookKeys |-> Absent]

\* os.getcwd()
Cwd == Str("/cwd")

\* TOOL_KIND_MAP lookup, default TOOL
KindOf(name) ==
    IF name = "Task" THEN "agent"
    ELSE IF name = "AskUserQuestion" THEN "user_input"
    ELSE "tool"

\* _get_span_kind raises on a name that is unhashable (list, mapping) or,
\* not being a key of the table, has no startswith (None, number)
SpanKindRaises(tool_name) == ~IsStr(tool_name)

_normalize_input(tool_input) ==
    IF IsDict(tool_input) THEN tool_input
    ELSE IF IsStr(tool_input) THEN JV("wrapped", tool_input.v)
    ELSE IF tool_input.k = "null" THEN EmptyMap
    ELSE JV("wrapped", tool_input.v)

_normalize_output(tool_output) ==
    IF IsDict(tool_output) THEN tool_output
    ELSE IF IsStr(tool_output) THEN JV("wrapped", tool_output.v)
    ELSE IF tool_output.k = "null" THEN EmptyMap
    ELSE JV("wrapped", tool_output.v)

NoTime == -1

\* the status to_span gives: pre hooks are in progress, every other hook type
\* is an error iff the error field is truthy
StatusOf(hook_data, hook_type) ==
    IF hook_type = "pre" THEN "in_progress"
    ELSE IF Truthy(Get(hook_data, "error")) THEN "error"
    ELSE "ok"

\* TraceConverter.to_span(hook_data, hook_type) on a converter whose cache is
\* `traces`, with `uuid` the next uuid4 and `now` the clock.  The result says
\* whether the call raised, the span, and the cache and uuid source afterwards.
to_span(hook_data, hook_type, traces, uuid, envv, now) ==
    LET tool_name == Or(Get(hook_data, "tool_name"), GetD(hook_data, "tool", Str("unknown")))
        tool_input == Or(Get(hook_data, "tool_input"), GetD(hook_data, "input", EmptyMap))
        tool_output == Or(Get(hook_data, "tool_output"), Get(hook_data, "output"))
        session_id == Or(Get(hook_data, "session_id"),
                         IF envv.k = "absent" THEN Str("unknown") ELSE envv)
        known == Hashable(session_id) /\ session_id \in DOMAIN traces
        traces2 == IF known THEN traces
                   ELSE [s \in DOMAIN traces \cup {session_id} |->
                            IF s = session_id THEN Uuid(uuid) ELSE traces[s]]
        uuid2 == IF known THEN uuid ELSE uuid + 1
        span == [span_id |-> Uuid(uuid2),
                 parent_id |-> Null,
                 trace_id |-> traces2[session_id],
                 name |-> tool_name.v,
                 kind |-> KindOf(tool_name.v),
                 status |-> StatusOf(hook_data, hook_type),
                 start_time |-> now,
                 end_time |-> IF hook_type = "post" THEN now ELSE NoTime,
                 attributes |-> [hook_type |-> Str(hook_type),
                                 working_dir |-> Or(Get(hook_data, "working_dir"), Cwd),
                                 session_id |-> Absent,
                                 conversation_id |-> hook_data["conversation_id"],
                                 model |-> hook_data["model"]],
                 input_data |-> _normalize_input(tool_input),
                 output_data |-> IF Truthy(tool_output)
                                 THEN _normalize_output(tool_output) ELSE Null,
                 error_message |-> Get(hook_data, "error")]
    IN  IF ~Hashable(session_id)
        THEN [raised |-> TRUE, traces |-> traces, uuid |-> uuid]
        ELSE IF SpanKindRaises(tool_name)
        THEN [raised |-> TRUE, traces |-> traces2, uuid |-> uuid2 + 1]
        ELSE [raised |-> FALSE, traces |-> traces2, uuid |-> uuid2 + 1, span |-> span]

\* a converter that has seen no session: TraceConverter.__init__
NoTraces == [s \in {} |-> Absent]

----------------------------------------------------------------------------
(* TraceStorage: schema *)

\* the columns the capture hook's fallback creates (the old schema)
OldCols == {"id", "session_id", "timestamp", "hook_type", "tool_name", "tool_input",
            "tool_output", "working_dir", "model", "input_tokens", "output_tokens",
            "cache_read_tokens", "cost_usd", "user_input", "reasoning", "ai_output",
            "ai_response", "created_at"}

\* the columns _init_db adds to an old table, in the order of its ALTER statements
AlterOrder == <<"span_id", "trace_id", "parent_id", "kind", "status", "attributes",
                "duration_ms", "error">>

NewCols == {AlterOrder[i] : i \in 1..Len(AlterOrder)}

\* the columns of CREATE TABLE in _init_db
FullCols == {"id", "span_id", "trace_id", "parent_id", "session_id", "timestamp",
             "hook_type", "tool_name", "kind", "status", "tool_input", "tool_output",
             "attributes", "duration_ms", "error", "working_dir", "created_at"}

\* the columns _write_db's INSERT names
InsertCols == FullCols \ {"id", "created_at"}

\* the ALTER TABLE statements from the i-th on, run inside one try block: the
\* first one that names an existing column raises OperationalError and ends the block
RECURSIVE AlterFrom(_, _)
AlterFrom(cols, i) ==
    IF i > Len(AlterOrder) THEN cols
    ELSE IF AlterOrder[i] \in cols THEN cols
    ELSE AlterFrom(cols \cup {AlterOrder[i]}, i + 1)

\* the table part of _init_db
MigrateColumns(cols) ==
    IF cols = {} THEN FullCols
    ELSE IF "span_id" \notin cols THEN AlterFrom(cols, 1)
    ELSE cols

\* the three CREATE INDEX statements of the first try block: one on a missing
\* column raises and ends the block
BaseIndexes(cols) ==
    IF "session_id" \notin cols THEN {}
    ELSE IF "timestamp" \notin cols THEN {"idx_session"}
    ELSE IF "tool_name" \notin cols THEN {"idx_session", "idx_timestamp"}
    ELSE {"idx_session", "idx_timestamp", "idx_tool"}

\* the second try block reads the columns again, after the migration
NewIndexes(cols) ==
    (IF "span_id" \in cols THEN {"idx_span"} ELSE {})
    \cup (IF "trace_id" \in cols THEN {"idx_trace"} ELSE {})

\* a faulty _init_db: the second index block reuses the column set read before the
\* migration instead of reading it again
InitDbStaleColumns(cols, idx) ==
    LET cols2 == MigrateColumns(cols)
    IN  [columns |-> cols2,
         indexes |-> idx \cup BaseIndexes(cols2) \cup NewIndexes(cols),
         raised |-> FALSE]

\* TraceStorage._init_db on a database with these columns and indexes
_init_db(cols, idx) ==
    LET cols2 == MigrateColumns(cols)
    IN  [columns |-> cols2,
         indexes |-> idx \cup BaseIndexes(cols2) \cup NewIndexes(cols2),
         raised |-> FALSE]

----------------------------------------------------------------------------
(* TraceStorage: writes *)

\* strftime("%Y-%m-%d") of a time: the date partition of the append log
SecondsPerDay == 2
DateOf(t) == t \div SecondsPerDay

\* the line _write_jsonl appends
JsonlRecord(span, raw_data) ==
    [file |-> DateOf(span.start_time), span |-> span, raw |-> raw_data]

\* sqlite3 binds None, numbers and strings; anything else raises
Bindable(x) == x.k \in {"null", "num", "str"}

\* json.dumps(x) if x else None
DumpOrNull(x) == IF Truthy(x) THEN x ELSE Null

\* the row _write_db inserts
DbRow(span, id, now) ==
    [id |-> id,
     span_id |-> span.span_id,
     trace_id |-> span.trace_id,
     parent_id |-> span.parent_id,
     session_id |-> Or(Get(span.attributes, "session_id"), span.trace_id),
     timestamp |-> span.start_time,
     hook_type |-> GetD(span.attributes, "hook_type", Str("unknown")),
     tool_name |-> span.name,
     kind |-> span.kind,
     status |-> span.status,
     tool_input |-> DumpOrNull(span.input_data),
     tool_output |-> DumpOrNull(span.output_data),
     attributes |-> span.attributes,
     duration_ms |-> IF span.end_time # NoTime
                     THEN (span.end_time - span.start_time) * 1000 ELSE NoTime,
     error |-> span.error_message,
     working_dir |-> GetD(span.attributes, "working_dir", Str("")),
     created_at |-> now]

\* whether the INSERT of _write_db raises: a column it names is missing, a
\* value cannot be bound, or the environment fails the write
WriteDbRaises(cols, span, dbFails) ==
    LET row == DbRow(span, 0, 0)
    IN  \/ dbFails
        \/ ~(InsertCols \subseteq cols)
        \/ ~Bindable(row.session_id)
        \/ ~Bindable(row.hook_type)
        \/ ~Bindable(row.error)
        \/ ~Bindable(row.working_dir)

\* INSERT OR REPLACE: the table has no UNIQUE constraint besides the
\* autoincrement id, which the INSERT does not give, so no row ever conflicts
\* and the statement appends
InsertOrReplace(rws, row) == Append(rws, row)

\* TraceStorage._write_db: the rows afterwards (its exceptions are caught)
_write_db(cols, rws, span, id, now, dbFails) ==
    IF WriteDbRaises(cols, span, dbFails) THEN rws
    ELSE InsertOrReplace(rws, DbRow(span, id, now))

\* a faulty _write_jsonl: the partition is opened for writing, not for
\* appending
WriteJsonlTruncates(lines, span, raw_data) == <<JsonlRecord(span, raw_data)>>

\* TraceStorage._write_jsonl: one line appended to the partition of the
\* span's date
_write_jsonl(lines, span, raw_data) == Append(lines, JsonlRecord(span, raw_data))

\* a faulty store: the index is written first, whatever happens to the
\* append log
StoreIndexFirst(cols, rws, lines, span, raw_data, id, now, jsonlFails, dbFails) ==
    IF jsonlFails
    THEN [raised |-> TRUE, jsonl |-> lines,
          rows |-> _write_db(cols, rws, span, id, now, dbFails)]
    ELSE [raised |-> FALSE,
          jsonl |-> _write_jsonl(lines, span, raw_data),
          rows |-> _write_db(cols, rws, span, id, now, dbFails)]

\* TraceStorage.store: _write_jsonl, then _write_db.  _write_jsonl is not
\* guarded: when the append fails its exception leaves store before _write_db
store(cols, rws, lines, span, raw_data, id, now, jsonlFails, dbFails) ==
    IF jsonlFails
    THEN [raised |-> TRUE, jsonl |-> lines, rows |-> rws]
    ELSE [raised |-> FALSE,
          jsonl |-> _write_jsonl(lines, span, raw_data),
          rows |-> _write_db(cols, rws, span, id, now, dbFails)]

----------------------------------------------------------------------------
(* TraceStorage: queries *)

AttrKeys == {"hook_type", "working_dir", "session_id", "conversation_id", "model"}
NoAttrs == [key \in AttrKeys |-> Absent]

Min(a, b) == IF a <= b THEN a ELSE b

\* the columns _row_to_span reads from every row
RowToSpanCols == {"kind", "status", "timestamp", "tool_input", "tool_output",
                  "attributes", "span_id", "parent_id", "trace_id", "tool_name"}

\* TraceStorage._row_to_span: unknown kind and status strings get defaults,
\* end_time is not read back
_row_to_span(row) ==
    [span_id |-> row.span_id,
     parent_id |-> row.parent_id,
     trace_id |-> row.trace_id,
     name |-> row.tool_name,
     kind |-> IF row.kind \in {"tool", "agent", "user_input"} THEN row.kind ELSE "tool",
     status |-> IF row.status \in {"in_progress", "ok", "error"} THEN row.status ELSE "ok",
     start_time |-> row.timestamp,
     end_time |-> NoTime,
     attributes |-> row.attributes,
     input_data |-> IF Truthy(row.tool_input) THEN row.tool_input ELSE EmptyMap,
     output_data |-> IF Truthy(row.tool_output) THEN row.tool_output ELSE EmptyMap,
     error_message |-> row.error]

\* a faulty selection: the session filter is dropped
MatchingUnfiltered(rws, session_id) == 1..Len(rws)

\* WHERE session_id = ?, applied only when the argument is truthy
Matching(rws, session_id) ==
    {i \in 1..Len(rws) : Truthy(session_id) => rws[i].session_id = session_id}

\* ORDER BY created_at DESC LIMIT ?: every sequence of row positions the query
\* may return.  created_at has a resolution of one second and the statement
\* names no further sort key, so rows of the same second come in any order.
Selections(rws, limit, session_id) ==
    LET m == Matching(rws, session_id)
        n == Min(limit, Cardinality(m))
    IN  {sel \in [1..n -> m] :
            /\ \A i, j \in 1..n : i < j =>
                    /\ sel[i] # sel[j]
                    /\ rws[sel[i]].created_at >= rws[sel[j]].created_at
            /\ \A k \in m : (\A i \in 1..n : sel[i] # k) =>
                    \A i \in 1..n : rws[sel[i]].created_at >= rws[k].created_at}

\* get_recent answers [] when the SELECT or _row_to_span raises
RecentRaises(cols, rws) ==
    \/ ~({"session_id", "created_at"} \subseteq cols)
    \/ rws # <<>> /\ ~(RowToSpanCols \subseteq cols)

\* TraceStorage.get_recent: the results it may return
get_recent(cols, rws, limit, session_id) ==
    IF RecentRaises(cols, rws) THEN {<<>>}
    ELSE {[i \in 1..Len(sel) |-> _row_to_span(rws[sel[i]])] :
             sel \in Selections(rws, limit, session_id)}

\* TraceStorage.get_tool_sequence: the results it may return
get_tool_sequence(cols, rws, limit, session_id) ==
    IF ~({"session_id", "created_at", "tool_name"} \subseteq cols) THEN {<<>>}
    ELSE {[i \in 1..Len(sel) |-> rws[sel[i]].tool_name] :
             sel \in Selections(rws, limit, session_id)}

\* the rows DELETE FROM traces WHERE session_id = ? removes
Deleted(rws, session_id) ==
    {i \in 1..Len(rws) : session_id.k # "null" /\ rws[i].session_id = session_id}

RECURSIVE Keep(_, _)
Keep(rws, gone) ==
    IF rws = <<>> THEN <<>>
    ELSE LET rest == Keep(Tail(rws), {i - 1 : i \in gone \ {1}})
         IN  IF 1 \in gone THEN rest ELSE <<Head(rws)>> \o rest

\* a faulty clear_session: DELETE FROM traces with no WHERE clause
ClearEverySession(cols, rws, session_id) ==
    IF "session_id" \notin cols THEN [rows |-> rws, count |-> 0]
    ELSE [rows |-> <<>>, count |-> Len(rws)]

\* TraceStorage.clear_session: the rows afterwards and the count returned
clear_session(cols, rws, session_id) ==
    IF "session_id" \notin cols THEN [rows |-> rws, count |-> 0]
    ELSE [rows |-> Keep(rws, Deleted(rws, session_id)),
          count |-> Cardinality(Deleted(rws, session_id))]

----------------------------------------------------------------------------
(* Guardian: configuration and state *)

\* GuardianConfig defaults
DefaultThreshold == 40
DefaultMaxAutoFixes == 10
DefaultPatternWindow == 10
DefaultAutoFixTypes == {"break_loop", "add_delay", "switch_strategy"}

\* GuardianConfig(): the dataclass defaults after __post_init__
GuardianConfig ==
    [enabled |-> TRUE,
     mode |-> "manual",
     severity_threshold |-> DefaultThreshold,
     auto_fix_types |-> DefaultAutoFixTypes,
     max_auto_fixes |-> DefaultMaxAutoFixes,
     pattern_window |-> DefaultPatternWindow]

\* Guardian.__init__ and ClaudeCodeAdapter.__init__ with configuration cfg:
\* no fix applied, no session blocked
NewGuardian(cfg) ==
    /\ config = cfg
    /\ _fix_counts = [s \in {} |-> 0]
    /\ _blocked_sessions = {}

\* a process that has built no Guardian of its own; no alert file, empty audit log
NoGuardian ==
    /\ NewGuardian(GuardianConfig)
    /\ alert = Null
    /\ audit = <<>>

\* the severity from which manual mode blocks, auto mode blocks a break_loop
\* fix and a fired loop detector recommends break_loop
CriticalSeverity == 60
\* how far below the threshold a finding is still logged as a warning
WarningMargin == 10
\* the number of recent spans Guardian._write_alert reads
AlertWindow == 10

\* EnforcementLevel, as EnforcementEngine.get_level may answer
Levels == {"suggest", "direct", "block", "terminate"}

\* Guardian._get_recommendation: the first fired detector of a known name
\* decides, in the order of the detection results
RECURSIVE _get_recommendation(_)
_get_recommendation(detection_results) ==
    IF detection_results = <<>> THEN "break_loop"
    ELSE LET result == Head(detection_results)
         IN  IF result.detected /\ result.detector_name = "loop"
             THEN (IF result.severity >= CriticalSeverity THEN "break_loop"
                   ELSE "switch_strategy")
             ELSE IF result.detected /\ result.detector_name = "repetition"
             THEN "break_loop"
             ELSE IF result.detected /\ result.detector_name = "coordination"
             THEN "escalate"
             ELSE _get_recommendation(Tail(detection_results))

\* the issues analyze collects: the evidence of every fired detector
RECURSIVE IssuesOf(_)
IssuesOf(detection_results) ==
    IF detection_results = <<>> THEN <<>>
    ELSE (IF Head(detection_results).detected THEN Head(detection_results).issues
          ELSE <<>>) \o IssuesOf(Tail(detection_results))

\* GuardianResult
GuardianResult(should_block, severity, issues, recommendation, action_taken, reason) ==
    [should_block |-> should_block, severity |-> severity, issues |-> issues,
     recommendation |-> recommendation, action_taken |-> action_taken,
     reason |-> reason]

\* one record of the audit log
AuditRecord(event, action, session_id, severity, reason) ==
    [event |-> event, action |-> action, session_id |-> session_id,
     severity |-> severity, reason |-> reason]

\* the alert Guardian._write_alert writes, with the names of the recent spans
GuardianAlert(c) ==
    [writer |-> "guardian", session_id |-> c.session_id, severity |-> c.severity,
     recommendation |-> c.recommendation, sequence |-> c.recent]

\* the alert ClaudeCodeAdapter._write_alert writes
AdapterAlert(c) ==
    [writer |-> "adapter",
     session_id |-> IF Truthy(c.session_id) THEN c.session_id ELSE Str("unknown"),
     severity |-> c.severity, recommendation |-> c.recommendation,
     sequence |-> <<>>]

\* ClaudeCodeAdapter.inject_fix at a level: DIRECT and BLOCK write the alert
\* file, BLOCK and TERMINATE block the session.  g is the state before
\* (fix_counts, blocked, alert, audit), c the call.
inject_fix(g, c, level) ==
    LET writes == level \in {"direct", "block"}
        blocks == level \in {"block", "terminate"} /\ Truthy(c.session_id)
    IN  IF writes /\ c.alertFails
        THEN [raised |-> TRUE, g |-> g]
        ELSE [raised |-> FALSE,
              g |-> [g EXCEPT !.alert = IF writes THEN AdapterAlert(c) ELSE @,
                              !.blocked = IF blocks THEN @ \cup {c.session_id} ELSE @,
                              !.injected = Append(@, level)]]

\* dict.get(session_id, 0) on _fix_counts
FixCount(fix_counts, session_id) ==
    IF session_id \in DOMAIN fix_counts THEN fix_counts[session_id] ELSE 0

\* a faulty assignment: the counters of the other sessions are dropped
SetOnlyFixCount(fix_counts, session_id, n) ==
    [s \in {session_id} |-> n]

\* _fix_counts[session_id] = n
SetFixCount(fix_counts, session_id, n) ==
    [s \in DOMAIN fix_counts \cup {session_id} |->
        IF s = session_id THEN n ELSE fix_counts[s]]

\* a faulty _handle_report_mode: the directive is injected and critical
\* findings block, as in manual mode
ReportModeEnforces(g, c) ==
    LET inj == inject_fix(g, c, c.level)
    IN  [raised |-> FALSE,
         g |-> [inj.g EXCEPT !.audit = Append(@, AuditRecord("report", "logged_only",
                                                     c.session_id, c.severity, ""))],
         result |-> GuardianResult(c.severity >= CriticalSeverity, c.severity, c.issues,
                                   c.recommendation, "logged_only", "")]

\* Guardian._handle_report_mode: an audit record and a warning, nothing else
_handle_report_mode(g, c) ==
    [raised |-> FALSE,
     g |-> [g EXCEPT !.audit = Append(@, AuditRecord("report", "logged_only",
                                                      c.session_id, c.severity, ""))],
     result |-> GuardianResult(FALSE, c.severity, c.issues, c.recommendation,
                               "logged_only", "")]

\* a faulty _handle_manual_mode: only severities above CriticalSeverity block
ManualModeBlocksAbove(g, c) ==
    IF c.alertFails THEN [raised |-> TRUE, g |-> g]
    ELSE LET g1 == [g EXCEPT !.alert = GuardianAlert(c)]
             inj == inject_fix(g1, c, c.level)
             should_block == c.severity > CriticalSeverity
             action == IF should_block THEN "blocked_for_approval" ELSE "warning"
         IN  IF inj.raised THEN inj
             ELSE [raised |-> FALSE,
                   g |-> [inj.g EXCEPT !.audit =
                             Append(@, AuditRecord("intervention", action,
                                                   c.session_id, c.severity, ""))],
                   result |-> GuardianResult(should_block, c.severity, c.issues,
                                             c.recommendation, action, "")]

\* Guardian._handle_manual_mode: alert, directive at the level the
\* enforcement engine answers, audit record; blocks from CriticalSeverity on
_handle_manual_mode(g, c) ==
    IF c.alertFails THEN [raised |-> TRUE, g |-> g]
    ELSE LET g1 == [g EXCEPT !.alert = GuardianAlert(c)]
             inj == inject_fix(g1, c, c.level)
             should_block == c.severity >= CriticalSeverity
             action == IF should_block THEN "blocked_for_approval" ELSE "warning"
         IN  IF inj.raised THEN inj
             ELSE [raised |-> FALSE,
                   g |-> [inj.g EXCEPT !.audit =
                             Append(@, AuditRecord("intervention", action,
                                                   c.session_id, c.severity, ""))],
                   result |-> GuardianResult(should_block, c.severity, c.issues,
                                             c.recommendation, action, "")]

\* Guardian._escalate_to_manual: alert, audit record, BLOCK directive
_escalate_to_manual(g, c, reason) ==
    IF c.alertFails THEN [raised |-> TRUE, g |-> g]
    ELSE LET g1 == [g EXCEPT !.alert = GuardianAlert(c),
                             !.audit = Append(@, AuditRecord("escalate",
                                                 "escalated_to_manual", c.session_id,
                                                 c.severity, reason))]
             inj == inject_fix(g1, c, "block")
         IN  IF inj.raised THEN inj
             ELSE [raised |-> FALSE,
                   g |-> inj.g,
                   result |-> GuardianResult(TRUE, c.severity, c.issues,
                                             c.recommendation, "escalated_to_manual",
                                             reason)]

\* a faulty _handle_auto_mode: the cap is compared after the increment is
\* already allowed (fix_count > max_auto_fixes)
AutoModeCapOffByOne(cfg, g, c) ==
    IF c.recommendation \notin cfg.auto_fix_types
    THEN _escalate_to_manual(g, c, "fix_type_not_approved")
    ELSE IF FixCount(g.fix_counts, c.session_id) > cfg.max_auto_fixes
    THEN _escalate_to_manual(g, c, "max_auto_fixes_reached")
    ELSE LET inj == inject_fix(g, c, c.level)
         IN  IF inj.raised THEN inj
             ELSE [raised |-> FALSE,
                   g |-> [inj.g EXCEPT
                            !.audit = Append(@, AuditRecord("auto_heal", "auto_fixed",
                                                c.session_id, c.severity, "")),
                            !.fix_counts = SetFixCount(@, c.session_id,
                                              FixCount(g.fix_counts, c.session_id) + 1)],
                   result |-> GuardianResult(c.recommendation = "break_loop"
                                                /\ c.severity >= CriticalSeverity,
                                             c.severity, c.issues, c.recommendation,
                                             "auto_fixed", "")]

\* Guardian._handle_auto_mode: escalate a fix type that is not approved or a
\* session at the cap; otherwise inject the fix, log it and count it
_handle_auto_mode(cfg, g, c) ==
    IF c.recommendation \notin cfg.auto_fix_types
    THEN _escalate_to_manual(g, c, "fix_type_not_approved")
    ELSE IF FixCount(g.fix_counts, c.session_id) >= cfg.max_auto_fixes
    THEN _escalate_to_manual(g, c, "max_auto_fixes_reached")
    ELSE LET inj == inject_fix(g, c, c.level)
         IN  IF inj.raised THEN inj
             ELSE [raised |-> FALSE,
                   g |-> [inj.g EXCEPT
                            !.audit = Append(@, AuditRecord("auto_heal", "auto_fixed",
                                                c.session_id, c.severity, "")),
                            !.fix_counts = SetFixCount(@, c.session_id,
                                              FixCount(g.fix_counts, c.session_id) + 1)],
                   result |-> GuardianResult(c.recommendation = "break_loop"
                                                /\ c.severity >= CriticalSeverity,
                                             c.severity, c.issues, c.recommendation,
                                             "auto_fixed", "")]

----------------------------------------------------------------------------
(* Operations *)

\* ClaudeCodeAdapter.capture_span: to_span with its default hook type
capture_span(raw_data, traces, uuid, envv, now) ==
    to_span(raw_data, "pre", traces, uuid, envv, now)

\* a span the caller of TraceStorage.store builds itself, as the tests do
CallerSpan(uuid, session_attr, name, now) ==
    [span_id |-> Uuid(uuid),
     parent_id |-> Null,
     trace_id |-> Null,
     name |-> name,
     kind |-> "tool",
     status |-> "ok",
     start_time |-> now,
     end_time |-> NoTime,
     attributes |-> [NoAttrs EXCEPT !["session_id"] = session_attr],
     input_data |-> EmptyMap,
     output_data |-> Null,
     error_message |-> Null]

\* what stdin holds when a hook starts, and the hook_data main makes of it:
\* {} for empty input and a mapping without any of the hook's keys for
\* unparseable input
HookData(stdin) == IF stdin.kind = "mapping" THEN stdin.data ELSE EmptyEvent

\* the effect of one store call on the store's variables
Stored(res) ==
    /\ jsonl' = res.jsonl
    /\ rows' = res.rows
    /\ nextRowId' = IF Len(res.rows) > Len(rows) THEN nextRowId + 1 ELSE nextRowId

Room == Len(rows) < MaxStored /\ Len(jsonl) < MaxStored

\* seconds pass
Tick ==
    /\ clock < MaxClock
    /\ clock' = clock + 1
    /\ UNCHANGED <<procs, db_lock, guardianVars, columns, indexes, rows, nextRowId, jsonl, session_traces,
                   nextUuid, env, lastOp>>

\* capture_hook.main on the adapter path, one process per hook invocation:
\* read stdin, open the store (a new adapter with a new converter), convert,
\* store, exit 0 whatever happened
CaptureHook(stdin, hook_type, jsonlFails, dbFails) ==
    /\ Room
    /\ nextUuid + 2 <= MaxUuid
    /\ LET db == _init_db(columns, indexes)
           conv == IF stdin.kind = "nonmapping"
                   THEN [raised |-> TRUE, traces |-> NoTraces, uuid |-> nextUuid]
                   ELSE capture_span(HookData(stdin), NoTraces, nextUuid, env, clock)
           res == IF conv.raised
                  THEN [raised |-> TRUE, jsonl |-> jsonl, rows |-> rows]
                  ELSE store(db.columns, rows, jsonl, conv.span, HookData(stdin),
                             nextRowId, clock, jsonlFails, dbFails)
       IN  /\ columns' = db.columns
           /\ indexes' = db.indexes
           /\ Stored(res)
           /\ nextUuid' = conv.uuid
           /\ lastOp' = [op |-> "capture", stdin |-> stdin, hook_type |-> hook_type,
                         converted |-> ~conv.raised,
                         span |-> IF conv.raised THEN Null ELSE conv.span,
                         jsonlFails |-> jsonlFails, dbFails |-> dbFails,
                         exit |-> 0]
    /\ UNCHANGED <<procs, db_lock, guardianVars, clock, session_traces, env>>

\* TraceStorage.store of a span
StoreCall(span, raw_data, jsonlFails, dbFails) ==
    LET res == store(columns, rows, jsonl, span, raw_data, nextRowId, clock,
                     jsonlFails, dbFails)
    IN  /\ Stored(res)
        /\ lastOp' = [op |-> "store", span |-> span, raw |-> raw_data,
                      raised |-> res.raised,
                      jsonlFails |-> jsonlFails, dbFails |-> dbFails]

\* TraceStorage.store of a span the caller built
StoreSpan(session_attr, name, jsonlFails, dbFails) ==
    /\ Room
    /\ nextUuid + 1 <= MaxUuid
    /\ StoreCall(CallerSpan(nextUuid, session_attr, name, clock), Null,
                 jsonlFails, dbFails)
    /\ nextUuid' = nextUuid + 1
    /\ UNCHANGED <<procs, db_lock, guardianVars, clock, columns, indexes, session_traces, env>>

\* TraceStorage.store of an event that was stored before (a retried write)
StoreAgain(i, jsonlFails, dbFails) ==
    /\ Room
    /\ i \in 1..Len(jsonl)
    /\ StoreCall(jsonl[i].span, jsonl[i].raw, jsonlFails, dbFails)
    /\ UNCHANGED <<procs, db_lock, guardianVars, clock, columns, indexes, session_traces, nextUuid, env>>

GetRecent(limit, session_id) ==
    /\ \E result \in get_recent(columns, rows, limit, session_id) :
           lastOp' = [op |-> "get_recent", limit |-> limit, session_id |-> session_id,
                      result |-> result]
    /\ UNCHANGED <<procs, db_lock, guardianVars, clock, columns, indexes, rows, nextRowId, jsonl, session_traces,
                   nextUuid, env>>

GetToolSequence(limit, session_id) ==
    /\ \E result \in get_tool_sequence(columns, rows, limit, session_id) :
           lastOp' = [op |-> "get_tool_sequence", limit |-> limit,
                      session_id |-> session_id, result |-> result]
    /\ UNCHANGED <<procs, db_lock, guardianVars, clock, columns, indexes, rows, nextRowId, jsonl, session_traces,
                   nextUuid, env>>

ClearSession(session_id) ==
    /\ LET res == clear_session(columns, rows, session_id)
       IN  /\ rows' = res.rows
           /\ lastOp' = [op |-> "clear_session", session_id |-> session_id,
                         count |-> res.count, before |-> rows]
    /\ UNCHANGED <<procs, db_lock, guardianVars, clock, columns, indexes, nextRowId, jsonl, session_traces,
                   nextUuid, env>>

----------------------------------------------------------------------------
(* Guardian.analyze *)

\* a faulty warning: written close to the threshold whether or not an issue
\* was found
LogWarningWithoutIssues(cfg, g, c) ==
    [g EXCEPT !.audit =
        IF c.severity >= cfg.severity_threshold - WarningMargin
        THEN Append(@, AuditRecord("warning", "allowed", c.session_id, c.severity, ""))
        ELSE @]

\* the audit warning of a call below the threshold: logged when the severity
\* is within WarningMargin of the threshold and issues were found
LogWarning(cfg, g, c) ==
    [g EXCEPT !.audit =
        IF c.severity >= cfg.severity_threshold - WarningMargin /\ c.issues # <<>>
        THEN Append(@, AuditRecord("warning", "allowed", c.session_id, c.severity, ""))
        ELSE @]

\* a faulty threshold check: a severity equal to the threshold is allowed
CheckThresholdInclusive(cfg, g, c) ==
    IF c.severity <= cfg.severity_threshold
    THEN [raised |-> FALSE, g |-> g,
          result |-> GuardianResult(FALSE, c.severity, c.issues, "none", "allowed", "")]
    ELSE IF cfg.mode = "report" THEN _handle_report_mode(g, c)
    ELSE IF cfg.mode = "auto" THEN _handle_auto_mode(cfg, g, c)
    ELSE _handle_manual_mode(g, c)

\* Guardian.analyze from the threshold check on: below the threshold the call
\* is allowed (with an audit warning when close to it and issues were found),
\* from the threshold on the configured mode decides
CheckThreshold(cfg, g, c) ==
    IF c.severity < cfg.severity_threshold
    THEN [raised |-> FALSE,
          g |-> LogWarning(cfg, g, c),
          result |-> GuardianResult(FALSE, c.severity, c.issues, "none", "allowed", "")]
    ELSE IF cfg.mode = "report" THEN _handle_report_mode(g, c)
    ELSE IF cfg.mode = "auto" THEN _handle_auto_mode(cfg, g, c)
    ELSE _handle_manual_mode(g, c)

\* the spans analyze hands to detection: the current span is put in front of
\* the recent ones unless one of them equals it
AllSpans(span, recent_spans) ==
    IF \E i \in 1..Len(recent_spans) : recent_spans[i] = span THEN recent_spans
    ELSE <<span>> \o recent_spans

\* the names of a sequence of spans
Names(spans) == [i \in 1..Len(spans) |-> spans[i].name]

\* a faulty analyze: the span is captured and stored before the guardian
\* looks at its configuration, and nothing else is done
AnalyzeStoresFirst(cfg, g, st, hook_data, session_arg, in) ==
    LET conv == capture_span(hook_data, st.traces, st.uuid, st.env, st.now)
        res == store(st.columns, st.rows, st.jsonl, conv.span, hook_data,
                     st.nextRowId, st.now, FALSE, FALSE)
    IN  {[raised |-> FALSE, g |-> g,
          st |-> [st EXCEPT !.traces = conv.traces, !.uuid = conv.uuid,
                            !.rows = res.rows, !.jsonl = res.jsonl,
                            !.nextRowId = @ + 1],
          trace |-> <<>>,
          result |-> GuardianResult(FALSE, 0, <<>>, "none", "disabled", "")]}

\* Guardian.analyze(hook_data, session_id) of a Guardian with configuration
\* cfg and state g, on the store and converter st: every outcome it may have.
\* in says what the detectors answer (detection_results), what the scoring
\* engine makes of it (score), the level the enforcement engine answers, and
\* which step fails (fault).
analyze(cfg, g, st, hook_data, session_arg, in) ==
    LET session_id == Or(session_arg,
                         Or(Get(hook_data, "session_id"),
                            IF st.env.k = "absent" THEN Str("unknown") ELSE st.env))
        conv == capture_span(hook_data, st.traces, st.uuid, st.env, st.now)
        st1 == [st EXCEPT !.traces = conv.traces, !.uuid = conv.uuid]
        res == store(st.columns, st.rows, st.jsonl, conv.span, hook_data,
                     st.nextRowId, st.now, in.fault = "jsonl", in.fault = "db")
        st2 == [st1 EXCEPT !.rows = res.rows, !.jsonl = res.jsonl,
                           !.nextRowId = IF Len(res.rows) > Len(st.rows)
                                         THEN @ + 1 ELSE @]
        severity == IF in.detection_results # <<>> THEN in.score ELSE 0
        issues == IssuesOf(in.detection_results)
    IN  IF ~cfg.enabled
        THEN {[raised |-> FALSE, g |-> g, st |-> st, trace |-> <<>>,
               result |-> GuardianResult(FALSE, 0, <<>>, "none", "disabled", "")]}
        ELSE IF conv.raised
        THEN {[raised |-> TRUE, g |-> g, st |-> st1, trace |-> <<>>]}
        ELSE IF res.raised
        THEN {[raised |-> TRUE, g |-> g, st |-> st1, trace |-> <<>>]}
        ELSE {IF in.fault = "detection"
              THEN [raised |-> TRUE, g |-> g, st |-> st2,
                    trace |-> AllSpans(conv.span, recent_spans)]
              ELSE LET c == [session_id |-> session_id, severity |-> severity,
                             issues |-> issues,
                             recommendation |-> _get_recommendation(in.detection_results),
                             level |-> in.level, alertFails |-> in.fault = "alert",
                             recent |-> Names(alert_spans)]
                       out == CheckThreshold(cfg, g, c)
                   IN  IF out.raised
                       THEN [raised |-> TRUE, g |-> out.g, st |-> st2,
                             trace |-> AllSpans(conv.span, recent_spans)]
                       ELSE [raised |-> FALSE, g |-> out.g, st |-> st2,
                             trace |-> AllSpans(conv.span, recent_spans),
                             result |-> out.result] :
                 recent_spans \in get_recent(st.columns, st2.rows, cfg.pattern_window, Null),
                 alert_spans \in get_recent(st.columns, st2.rows, AlertWindow, Null)}

----------------------------------------------------------------------------
(* SpecStore: a store opened on an empty directory *)

Sessions == {Str("A"), Str("B")}
Tools == {"Read", "Edit"}

\* the hook events of the storage runs
StoreEvents ==
    {[EmptyEvent EXCEPT !["tool_name"] = Str("Read"), !["session_id"] = s] :
        s \in Sessions}

StoreStdin == {[kind |-> "mapping", data |-> e] : e \in StoreEvents}

\* session arguments of the queries: a session or None
QuerySessions == Sessions \cup {Null}

\* the I/O failures the environment may inject into one store call
Faults == {[jsonl |-> FALSE, db |-> FALSE], [jsonl |-> TRUE, db |-> FALSE],
           [jsonl |-> FALSE, db |-> TRUE]}

Fresh == _init_db({}, {})

InitStore ==
    /\ NoGuardian
    /\ clock = 0
    /\ columns = Fresh.columns
    /\ indexes = Fresh.indexes
    /\ rows = <<>>
    /\ nextRowId = 1
    /\ jsonl = <<>>
    /\ session_traces = NoTraces
    /\ nextUuid = 1
    /\ env = Absent
    /\ lastOp = [op |-> "open"]
    /\ procs = NoProcs
    /\ db_lock = 0

NextStore ==
    \/ \E stdin \in StoreStdin, f \in Faults : CaptureHook(stdin, "pre", f.jsonl, f.db)
    \/ \E i \in 1..MaxStored, f \in Faults : StoreAgain(i, f.jsonl, f.db)
    \/ \E k \in 1..MaxStored, s \in QuerySessions : GetRecent(k, s)
    \/ \E s \in Sessions : ClearSession(s)

SpecStore == InitStore /\ [][NextStore]_vars

----------------------------------------------------------------------------
(* SpecQuery: spans stored under sessions A and B, and the queries *)

NextQuery ==
    \/ Tick
    \/ \E s \in Sessions, t \in Tools : StoreSpan(s, t, FALSE, FALSE)
    \/ \E k \in 1..MaxStored, s \in QuerySessions : GetRecent(k, s)
    \/ \E k \in 1..MaxStored, s \in Sessions : GetToolSequence(k, s)
    \/ \E s \in Sessions : ClearSession(s)

SpecQuery == InitStore /\ [][NextQuery]_vars

----------------------------------------------------------------------------
(* SpecMigrate: _init_db on backing stores that exist already *)

\* the columns _fallback_capture adds one by one, each ALTER in its own try
FallbackAlterCols == {"model", "input_tokens", "output_tokens", "cache_read_tokens",
                      "cost_usd", "user_input", "reasoning", "ai_output", "ai_response"}

\* the columns _fallback_capture's INSERT names
FallbackInsertCols == OldCols \ {"id", "created_at"}

\* SQL NULL in the columns the model keeps as plain strings
SqlNull == "NULL"

\* the record _fallback_capture appends to the JSONL file: the legacy shape,
\* which has no span_id (the model and usage fields are read from the
\* transcript on post hooks only and are left out)
FallbackTrace(hook_data, hook_type, envv, now) ==
    [span_id |-> Absent,
     session_id |-> GetD(hook_data, "session_id",
                         IF envv.k = "absent" THEN Str("unknown") ELSE envv),
     timestamp |-> now,
     hook_type |-> Str(hook_type),
     tool_name |-> GetD(hook_data, "tool_name", GetD(hook_data, "tool", Str("unknown"))),
     tool_input |-> GetD(hook_data, "tool_input", GetD(hook_data, "input", EmptyMap)),
     tool_output |-> GetD(hook_data, "tool_response",
                          GetD(hook_data, "tool_output", Null)),
     working_dir |-> Cwd]

\* the row _fallback_capture inserts: the columns of the new schema stay NULL
FallbackRow(trace, id, now) ==
    [id |-> id,
     span_id |-> Null,
     trace_id |-> Null,
     parent_id |-> Null,
     session_id |-> trace.session_id,
     timestamp |-> trace.timestamp,
     hook_type |-> trace.hook_type,
     tool_name |-> trace.tool_name.v,
     kind |-> SqlNull,
     status |-> SqlNull,
     tool_input |-> DumpOrNull(trace.tool_input),
     tool_output |-> DumpOrNull(trace.tool_output),
     attributes |-> NoAttrs,
     duration_ms |-> NoTime,
     error |-> Null,
     working_dir |-> trace.working_dir,
     created_at |-> now]

\* capture_hook._fallback_capture, the capture of an installation without the
\* package: append the legacy record, create the old table if there is none,
\* add its own newer columns, insert (index errors are swallowed).  It runs
\* inside main's ImportError handler: hook_data.get on stdin that is no
\* mapping and a failing append are caught by nobody, and the process ends
\* with a traceback and status 1.
FallbackCapture(stdin, hook_type, jsonlFails) ==
    /\ Room
    /\ LET hook_data == HookData(stdin)
           trace == FallbackTrace(hook_data, hook_type, env, clock)
           cols == (IF columns = {} THEN OldCols ELSE columns) \cup FallbackAlterCols
           ok == /\ FallbackInsertCols \subseteq cols
                 /\ Bindable(trace.session_id)
                 /\ IsStr(trace.tool_name)
           uncaught == stdin.kind = "nonmapping" \/ jsonlFails
       IN  /\ jsonl' = IF uncaught THEN jsonl
                       ELSE Append(jsonl, [file |-> DateOf(clock), span |-> trace,
                                           raw |-> hook_data])
           /\ columns' = IF uncaught THEN columns ELSE cols
           /\ indexes' = IF uncaught THEN indexes
                         ELSE indexes \cup {"idx_session", "idx_tool"}
           /\ rows' = IF ok /\ ~uncaught
                      THEN Append(rows, FallbackRow(trace, nextRowId, clock))
                      ELSE rows
           /\ nextRowId' = IF ok /\ ~uncaught THEN nextRowId + 1 ELSE nextRowId
           /\ lastOp' = [op |-> "fallback_capture", hook_type |-> hook_type,
                         stdin |-> stdin, jsonlFails |-> jsonlFails,
                         exit |-> IF uncaught THEN 1 ELSE 0]
    /\ UNCHANGED <<procs, db_lock, guardianVars, clock, session_traces, nextUuid, env>>

\* TraceStorage(traces_dir): the constructor runs _init_db.  lastOp keeps the
\* database as it was before the call and whether the call before was an
\* open as well.
OpenStore ==
    /\ LET db == _init_db(columns, indexes)
       IN  /\ columns' = db.columns
           /\ indexes' = db.indexes
           /\ lastOp' = [op |-> "init_db", raised |-> db.raised,
                         second |-> lastOp.op = "init_db",
                         before |-> [columns |-> columns, indexes |-> indexes,
                                     rows |-> rows]]
    /\ UNCHANGED <<procs, db_lock, guardianVars, clock, rows, nextRowId, jsonl, session_traces, nextUuid, env>>

MigrateStdin ==
    {[kind |-> "mapping",
      data |-> [EmptyEvent EXCEPT !["tool_name"] = Str("Read"),
                                  !["session_id"] = Str("A")]]}

\* a backing store that exists before the first open: no database, or a
\* traces table of the old schema with any of the newer columns
InitMigrate ==
    /\ NoGuardian
    /\ clock = 0
    /\ \/ columns = {} /\ indexes = {}
       \/ \E newer \in SUBSET NewCols :
             /\ columns = OldCols \cup newer
             /\ indexes = {"idx_session", "idx_tool"}
    /\ rows = <<>>
    /\ nextRowId = 1
    /\ jsonl = <<>>
    /\ session_traces = NoTraces
    /\ nextUuid = 1
    /\ env = Absent
    /\ lastOp = [op |-> "none"]
    /\ procs = NoProcs
    /\ db_lock = 0

NextMigrate ==
    \/ OpenStore
    \/ \E stdin \in MigrateStdin : FallbackCapture(stdin, "PreToolUse", FALSE)
    \/ \E stdin \in MigrateStdin : CaptureHook(stdin, "pre", FALSE, FALSE)

SpecMigrate == InitMigrate /\ [][NextMigrate]_vars

----------------------------------------------------------------------------
(* cli.normalize_trace *)

\* the keys normalize_trace reads of an archived record; the keys it reads of
\* the mappings under attributes and usage are written with a dot
ArchiveKeys == {"tool_name", "name", "timestamp", "start_time", "attributes",
                "attributes.hook_type", "attributes.working_dir", "hook_type",
                "tool_input", "input_data", "session_id", "trace_id", "usage",
                "usage.input_tokens", "usage.output_tokens",
                "usage.cache_read_input_tokens", "working_dir", "model",
                "cost_usd", "ai_response"}

\* an archived record with no key at all
EmptyRecord == [key \in ArchiveKeys |-> Absent]

\* a trace id longer than eight characters, and its first eight
LongTraceId == "0a1b2c3d-4e5f"
\* s[:8] of a string
Prefix8(s) == IF s = LongTraceId THEN "0a1b2c3d" ELSE s

\* x[:8]: strings and lists can be sliced, nothing else can
SliceRaises(x) == x.k \notin {"str", "list"}
Slice8(x) == IF IsStr(x) THEN Str(Prefix8(x.v)) ELSE x

\* m.get(key, default) of the mapping under t[field]
SubGet(t, field, key, default) ==
    GetD(t, field \o "." \o key, default)

\* "pre" -> "PreToolUse", "post" -> "PostToolUse"
LongHookType(hook_type) ==
    IF hook_type = Str("pre") THEN Str("PreToolUse")
    ELSE IF hook_type = Str("post") THEN Str("PostToolUse")
    ELSE hook_type

\* cli.normalize_trace(t): whether it raised and, if not, the record
normalize_trace(t) ==
    LET tool_name == Or(Get(t, "tool_name"), Get(t, "name"))
        timestamp == Or(Get(t, "timestamp"), Get(t, "start_time"))
        attrs == GetD(t, "attributes", EmptyMap)
        topHook == Get(t, "hook_type")
        hookRaises == ~Truthy(topHook) /\ ~IsDict(attrs)
        hook_type == IF Truthy(topHook) THEN topHook
                     ELSE SubGet(t, "attributes", "hook_type", Str(""))
        tool_input == Or(Get(t, "tool_input"), GetD(t, "input_data", EmptyMap))
        topSession == Get(t, "session_id")
        trace_id == GetD(t, "trace_id", Str(""))
        sessionRaises == ~Truthy(topSession) /\ SliceRaises(trace_id)
        session_id == IF Truthy(topSession) THEN topSession ELSE Slice8(trace_id)
        usage == GetD(t, "usage", EmptyMap)
        usageRaises == Truthy(usage) /\ ~IsDict(usage)
        Tokens(key) == IF Truthy(usage) THEN SubGet(t, "usage", key, Num("0"))
                       ELSE Num("0")
        topDir == Get(t, "working_dir")
        dirRaises == ~Truthy(topDir) /\ ~IsDict(attrs)
        working_dir == IF Truthy(topDir) THEN topDir
                       ELSE SubGet(t, "attributes", "working_dir", Str(""))
    IN  IF hookRaises \/ sessionRaises \/ usageRaises \/ dirRaises
        THEN [raised |-> TRUE]
        ELSE [raised |-> FALSE,
              trace |-> [tool_name |-> tool_name,
                         timestamp |-> timestamp,
                         hook_type |-> LongHookType(hook_type),
                         session_id |-> session_id,
                         tool_input |-> tool_input,
                         working_dir |-> working_dir,
                         model |-> Get(t, "model"),
                         input_tokens |-> Tokens("input_tokens"),
                         output_tokens |-> Tokens("output_tokens"),
                         cache_read_tokens |-> Tokens("cache_read_input_tokens"),
                         cost_usd |-> GetD(t, "cost_usd", Num("0.0")),
                         ai_response |-> Get(t, "ai_response"),
                         _raw |-> t]]

----------------------------------------------------------------------------
(* SpecNorm: the normalizers applied to raw events and archived records *)

\* TraceConverter.to_span on the converter of a running process
ToSpan(hook_data, hook_type) ==
    /\ nextUuid + 2 <= MaxUuid
    /\ LET res == to_span(hook_data, hook_type, session_traces, nextUuid, env, clock)
       IN  /\ session_traces' = res.traces
           /\ nextUuid' = res.uuid
           /\ lastOp' = [op |-> "to_span", hook_data |-> hook_data,
                         hook_type |-> hook_type, converted |-> ~res.raised,
                         span |-> IF res.raised THEN Null ELSE res.span]
    /\ UNCHANGED <<procs, db_lock, guardianVars, clock, columns, indexes, rows, nextRowId, jsonl, env>>

\* cli.normalize_trace on one archived record
NormalizeTrace(t) ==
    /\ LET res == normalize_trace(t)
       IN  lastOp' = [op |-> "normalize_trace", t |-> t, raised |-> res.raised,
                      trace |-> IF res.raised THEN Null ELSE res.trace]
    /\ UNCHANGED <<procs, db_lock, guardianVars, clock, columns, indexes, rows, nextRowId, jsonl, session_traces,
                   nextUuid, env>>

\* raw events: each field missing, null, empty, a string, or of another type
RawEvents ==
    {[EmptyEvent EXCEPT !["tool_name"] = a, !["tool"] = b,
                        !["session_id"] = c, !["error"] = d] :
        a \in {Absent, Str(""), Str("Read"), Num("5")},
        b \in {Absent, Null, Str("")},
        c \in {Str("A"), SomeList},
        d \in {Absent, Str(""), Str("boom")}}

\* archived records of either shape, with missing, null and ill-typed fields
ArchivedRecords ==
    {[EmptyRecord EXCEPT !["tool_name"] = a, !["name"] = b, !["attributes"] = c,
                         !["session_id"] = d, !["trace_id"] = e, !["usage"] = f] :
        a \in {Absent, Str(""), Str("Read")},
        b \in {Absent, Str("")},
        c \in {Absent, Null},
        d \in {Absent, Str("A")},
        e \in {Null, Str(LongTraceId)},
        f \in {Absent, SomeList}}

\* what the capture hook reads from stdin in SpecNorm
HookStdin ==
    {[kind |-> "mapping",
      data |-> [EmptyEvent EXCEPT !["tool_name"] = Str("Read"),
                                  !["session_id"] = Str("A"),
                                  !["error"] = d]] :
        d \in {Absent, Str("boom")}}

\* argv[1] of the capture hook, the hook_type argument of to_span
HookTypes == {"pre", "post"}

NextNorm ==
    \/ \E hook_data \in RawEvents, hook_type \in HookTypes : ToSpan(hook_data, hook_type)
    \/ \E t \in ArchivedRecords : NormalizeTrace(t)
    \/ \E stdin \in HookStdin, hook_type \in HookTypes :
          CaptureHook(stdin, hook_type, FALSE, FALSE)

SpecNorm == InitStore /\ [][NextNorm]_vars

----------------------------------------------------------------------------
(* Guardian.analyze on one Guardian instance *)

\* the Guardian's own state, as analyze takes it
GuardianState ==
    [fix_counts |-> _fix_counts, blocked |-> _blocked_sessions, alert |-> alert,
     audit |-> audit, injected |-> <<>>]

\* the store and the converter, as analyze takes them
StoreState ==
    [columns |-> columns, rows |-> rows, jsonl |-> jsonl, nextRowId |-> nextRowId,
     traces |-> session_traces, uuid |-> nextUuid, env |-> env, now |-> clock]

\* await guardian.analyze(hook_data) on the Guardian of this process.  lastOp
\* keeps the inputs, the outcome, the trace handed to detection, the levels
\* injected and the Guardian's state before the call.
Analyze(hook_data, session_arg, in) ==
    /\ Room
    /\ nextUuid + 2 <= MaxUuid
    /\ \E out \in analyze(config, GuardianState, StoreState, hook_data, session_arg, in) :
          /\ _fix_counts' = out.g.fix_counts
          /\ _blocked_sessions' = out.g.blocked
          /\ alert' = out.g.alert
          /\ audit' = out.g.audit
          /\ rows' = out.st.rows
          /\ jsonl' = out.st.jsonl
          /\ nextRowId' = out.st.nextRowId
          /\ session_traces' = out.st.traces
          /\ nextUuid' = out.st.uuid
          /\ lastOp' = [op |-> "analyze", hook_data |-> hook_data, in |-> in,
                        raised |-> out.raised,
                        result |-> IF out.raised THEN Null ELSE out.result,
                        trace |-> out.trace,
                        injected |-> out.g.injected,
                        before |-> GuardianState]
    /\ UNCHANGED <<procs, db_lock, clock, columns, indexes, env, config>>

\* what the detectors may answer
LoopFired(severity) ==
    [detector_name |-> "loop", detected |-> TRUE, severity |-> severity,
     issues |-> <<"loop">>]
CoordinationFired ==
    [detector_name |-> "coordination", detected |-> TRUE, severity |-> CriticalSeverity,
     issues |-> <<"coordination">>]

\* a threshold above the severity from which manual mode blocks
HighThreshold == 70

\* severities around the thresholds and around CriticalSeverity
Scores == {DefaultThreshold - 1, DefaultThreshold, CriticalSeverity, HighThreshold}

\* the event of a tool call of session s
ToolCall(s) == [EmptyEvent EXCEPT !["tool_name"] = Str("Read"), !["session_id"] = s]

\* the answers of the engines in SpecGuard: nothing found, or a loop with some
\* combined score; directives are suggested or block
GuardInputs ==
    {[detection_results |-> <<>>, score |-> 0, level |-> "suggest", fault |-> "none"]}
    \cup {[detection_results |-> <<LoopFired(CriticalSeverity)>>, score |-> n,
            level |-> l, fault |-> "none"] : n \in Scores, l \in {"suggest", "block"}}

\* the configurations of SpecGuard: every mode with a low and a high
\* threshold, and a disabled guardian
GuardConfigs ==
    {[GuardianConfig EXCEPT !.mode = m, !.severity_threshold = t] :
        m \in {"report", "auto", "manual"}, t \in {DefaultThreshold, HighThreshold}}
    \cup {[GuardianConfig EXCEPT !.enabled = FALSE]}

\* a Guardian built on an empty directory with a configuration
InitGuardian(cfgs) ==
    /\ clock = 0
    /\ columns = Fresh.columns
    /\ indexes = Fresh.indexes
    /\ rows = <<>>
    /\ nextRowId = 1
    /\ jsonl = <<>>
    /\ session_traces = NoTraces
    /\ nextUuid = 1
    /\ env = Absent
    /\ lastOp = [op |-> "open"]
    /\ procs = NoProcs
    /\ db_lock = 0
    /\ \E cfg \in cfgs : NewGuardian(cfg)
    /\ alert = Null
    /\ audit = <<>>

InitGuard == InitGuardian(GuardConfigs)

NextGuard ==
    \E in \in GuardInputs : Analyze(ToolCall(Str("A")), Null, in)

SpecGuard == InitGuard /\ [][NextGuard]_vars

----------------------------------------------------------------------------
(* SpecAuto: one Guardian in auto mode, two sessions *)

\* the configured cap on automatic fixes per session
SmallCap == 1

AutoConfigs ==
    {[GuardianConfig EXCEPT !.mode = "auto", !.max_auto_fixes = SmallCap]}

\* the answers of the engines in SpecAuto: a loop (break_loop, approved) or a
\* coordination finding (escalate, not approved), below or above the threshold
AutoInputs ==
    {[detection_results |-> <<d>>, score |-> n, level |-> l, fault |-> "none"] :
        d \in {LoopFired(CriticalSeverity), CoordinationFired},
        n \in {DefaultThreshold - 1, CriticalSeverity},
        l \in {"suggest", "block"}}

InitAuto == InitGuardian(AutoConfigs)

NextAuto ==
    \E s \in Sessions, in \in AutoInputs : Analyze(ToolCall(s), Null, in)

SpecAuto == InitAuto /\ [][NextAuto]_vars

----------------------------------------------------------------------------
(* guardian_hook: the fallback loop detector *)

\* the run length from which _fallback_detection reports a loop
LoopRun == 5
\* the shortest sequence _fallback_detection scans
MinScan == 5
\* LIMIT of the query of _fallback_detection
FallbackWindow == 10

\* the scan of _fallback_detection from position i on, with the length of the
\* run that ends at i - 1 and the longest run seen so far
RECURSIVE Scan(_, _, _, _)
Scan(tool_sequence, i, current_consecutive, max_consecutive) ==
    IF i > Len(tool_sequence) THEN max_consecutive
    ELSE IF tool_sequence[i] = tool_sequence[i - 1]
    THEN Scan(tool_sequence, i + 1, current_consecutive + 1,
              IF current_consecutive + 1 > max_consecutive
              THEN current_consecutive + 1 ELSE max_consecutive)
    ELSE Scan(tool_sequence, i + 1, 1, max_consecutive)

\* max_consecutive after the loop of _fallback_detection
MaxConsecutive(tool_sequence) == Scan(tool_sequence, 2, 1, 1)

\* a faulty detector: the run is compared with > instead of >=
LoopDetectedAbove(tool_sequence) ==
    /\ Len(tool_sequence) >= MinScan
    /\ MaxConsecutive(tool_sequence) > LoopRun

\* whether _fallback_detection reports a loop for the sequence it evaluates
LoopDetected(tool_sequence) ==
    /\ Len(tool_sequence) >= MinScan
    /\ MaxConsecutive(tool_sequence) >= LoopRun

\* a stored tool name as the query returns it: None for SQL NULL
ToolNameOf(row) == IF row.tool_name = SqlNull THEN Null ELSE Str(row.tool_name)

\* guardian_hook._fallback_detection on a database with these columns and
\* rows: every outcome it may have.  The query names no session, so the
\* window holds the most recent rows of all sessions; a missing database, a
\* missing table and a failing query all end with status 0.
_fallback_detection(cols, rws, hook_data) ==
    LET current_tool == GetD(hook_data, "tool_name",
                             GetD(hook_data, "tool", Str("unknown")))
    IN  IF ~({"tool_name", "created_at"} \subseteq cols)
        THEN {[exit |-> 0, tool_sequence |-> <<>>, window |-> <<>>]}
        ELSE {LET recent_tools == [i \in 1..Len(sel) |-> ToolNameOf(rws[sel[i]])]
                  tool_sequence == <<current_tool>> \o recent_tools
              IN  [exit |-> IF LoopDetected(tool_sequence) THEN 1 ELSE 0,
                   tool_sequence |-> tool_sequence,
                   window |-> [i \in 1..Len(sel) |-> rws[sel[i]]]] :
                 sel \in Selections(rws, FallbackWindow, Null)}

\* guardian_hook.main, one process per tool call.  stdin is empty,
\* unparseable, a mapping or another JSON value; installed says whether
\* pisama_claude_code can be imported; in is what the engines answer and which
\* step fails.  A JSON value that is no mapping has no get: the exception
\* of line 34 is outside every try and the interpreter exits with status 1.
\* analyze_sync builds a new Guardian, so the fix counters, the blocked
\* sessions and the trace ids of the call are its own.
GuardianHook(stdin, installed, in) ==
    LET hook_data == HookData(stdin)
        session_id == Or(Get(hook_data, "session_id"),
                         IF env.k = "absent" THEN Str("unknown") ELSE env)
        db == _init_db(columns, indexes)
        g0 == [fix_counts |-> [s \in {} |-> 0], blocked |-> {}, alert |-> alert,
               audit |-> audit, injected |-> <<>>]
        st0 == [StoreState EXCEPT !.columns = db.columns, !.traces = NoTraces]
    IN  IF stdin.kind = "nonmapping"
        THEN /\ lastOp' = [op |-> "guardian_hook", stdin |-> stdin, in |-> in,
                           installed |-> installed, path |-> "crash", exit |-> 1,
                           should_block |-> FALSE, loop |-> FALSE, trace |-> <<>>]
             /\ UNCHANGED <<procs, db_lock, guardianVars, clock, columns, indexes, rows, nextRowId,
                            jsonl, session_traces, nextUuid, env>>
        ELSE IF installed
        THEN /\ Room
             /\ nextUuid + 2 <= MaxUuid
             /\ \E out \in analyze(config, g0, st0, hook_data, session_id, in) :
                   /\ alert' = out.g.alert
                   /\ audit' = out.g.audit
                   /\ rows' = out.st.rows
                   /\ jsonl' = out.st.jsonl
                   /\ nextRowId' = out.st.nextRowId
                   /\ nextUuid' = out.st.uuid
                   /\ lastOp' = [op |-> "guardian_hook", stdin |-> stdin, in |-> in,
                                 installed |-> installed,
                                 path |-> IF out.raised THEN "raised" ELSE "analyzed",
                                 exit |-> IF ~out.raised /\ out.result.should_block
                                          THEN 1 ELSE 0,
                                 should_block |-> ~out.raised /\ out.result.should_block,
                                 loop |-> FALSE, trace |-> out.trace]
             /\ columns' = db.columns
             /\ indexes' = db.indexes
             /\ UNCHANGED <<procs, db_lock, clock, session_traces, env, config, _fix_counts,
                            _blocked_sessions>>
        ELSE /\ \E out \in _fallback_detection(columns, rows, hook_data) :
                   lastOp' = [op |-> "guardian_hook", stdin |-> stdin, in |-> in,
                              installed |-> installed, path |-> "fallback",
                              exit |-> out.exit, should_block |-> FALSE,
                              loop |-> out.exit = 1, trace |-> out.window]
             /\ UNCHANGED <<procs, db_lock, guardianVars, clock, columns, indexes, rows, nextRowId,
                            jsonl, session_traces, nextUuid, env>>

----------------------------------------------------------------------------
(* SpecHook: capture and guardian hooks of two sessions, one process each *)

\* what the guardian hook may find on stdin
HookStdins ==
    {[kind |-> k, data |-> EmptyEvent] : k \in {"empty", "unparseable", "nonmapping"}}
    \cup {[kind |-> "mapping", data |-> ToolCall(s)] : s \in Sessions}

\* the answers of the engines in SpecHook: nothing found, or a critical loop
\* for which BLOCK is answered, with each step that can fail
HookInputs ==
    {[detection_results |-> <<>>, score |-> 0, level |-> "suggest", fault |-> "none"]}
    \cup {[detection_results |-> <<LoopFired(CriticalSeverity)>>,
            score |-> CriticalSeverity, level |-> "block", fault |-> f] :
              f \in {"none", "jsonl", "db", "detection", "alert"}}

InitHook == InitGuardian({GuardianConfig})

NextHook ==
    \/ \E stdin \in StoreStdin : CaptureHook(stdin, "pre", FALSE, FALSE)
    \/ \E stdin \in HookStdins, installed \in BOOLEAN, in \in HookInputs :
          GuardianHook(stdin, installed, in)

SpecHook == InitHook /\ [][NextHook]_vars

----------------------------------------------------------------------------
(* SpecLoop: the loop test of _fallback_detection as a function of the     *)
(* tool sequence it evaluates                                              *)

\* the longest tool sequence of SpecLoop
MaxSeq == 6

\* the tool sequences of SpecLoop: the current tool and up to MaxSeq - 1
\* stored names
ToolSequences ==
    UNION {[1..n -> {Str(t) : t \in Tools}] : n \in 1..MaxSeq}

\* the loop test of _fallback_detection on one tool sequence
ScanSequence(tool_sequence) ==
    /\ lastOp' = [op |-> "loop_detection", tool_sequence |-> tool_sequence,
                  detected |-> LoopDetected(tool_sequence)]
    /\ UNCHANGED <<procs, db_lock, guardianVars, clock, columns, indexes, rows, nextRowId, jsonl,
                   session_traces, nextUuid, env>>

NextLoop == \E tool_sequence \in ToolSequences : ScanSequence(tool_sequence)

SpecLoop == InitStore /\ [][NextLoop]_vars

----------------------------------------------------------------------------
(* SpecTrace: one TraceConverter through to_span and reset_session calls   *)

\* the most calls SpecTrace makes on the converter
MaxLog == 4

\* the session id to_span resolves: the hook value, else CLAUDE_SESSION_ID,
\* else "unknown"
SessionId(hook_data, envv) ==
    Or(Get(hook_data, "session_id"), IF envv.k = "absent" THEN Str("unknown") ELSE envv)

\* a faulty reset_session that drops nothing
ResetKeepsTrace(traces, session_id) == traces

\* TraceConverter.reset_session: _session_traces.pop(session_id, None)
reset_session(traces, session_id) ==
    [s \in DOMAIN traces \ {session_id} |-> traces[s]]

\* TraceConverter.get_trace_id: _session_traces.get(session_id)
get_trace_id(traces, session_id) ==
    IF session_id \in DOMAIN traces THEN traces[session_id] ELSE Null

\* the calls made on the converter so far, oldest first
LogOf(op) == IF "log" \in DOMAIN op THEN op.log ELSE <<>>

\* to_span on the converter, the call and its span appended to the log
TrackedToSpan(hook_data) ==
    /\ Len(LogOf(lastOp)) < MaxLog
    /\ LET res == to_span(hook_data, "pre", session_traces, nextUuid, env, clock)
       IN  /\ ~res.raised
           /\ session_traces' = res.traces
           /\ nextUuid' = res.uuid
           /\ lastOp' = [op |-> "to_span",
                         log |-> Append(LogOf(lastOp),
                                        [op |-> "to_span",
                                         session_id |-> SessionId(hook_data, env),
                                         trace_id |-> res.span.trace_id])]
    /\ UNCHANGED <<procs, db_lock, guardianVars, clock, columns, indexes, rows, nextRowId, jsonl, env>>

\* reset_session on the converter, the call appended to the log
ResetSession(session_id) ==
    /\ Len(LogOf(lastOp)) < MaxLog
    /\ session_traces' = reset_session(session_traces, session_id)
    /\ lastOp' = [op |-> "reset_session",
                  log |-> Append(LogOf(lastOp),
                                 [op |-> "reset_session", session_id |-> session_id,
                                  trace_id |-> Null])]
    /\ UNCHANGED <<procs, db_lock, guardianVars, clock, columns, indexes, rows, nextRowId, jsonl,
                   nextUuid, env>>

\* hook events of SpecTrace: the session id missing, empty, or one of two
TraceEvents ==
    {[EmptyEvent EXCEPT !["tool_name"] = Str("Read"), !["session_id"] = c] :
        c \in {Absent, Str(""), Str("A"), Str("B")}}

\* the sessions SpecTrace resets
ResetSessions == {Str("A"), Str("B"), Str("unknown")}

\* a new converter in a process with or without CLAUDE_SESSION_ID
InitTrace ==
    /\ NoGuardian
    /\ clock = 0
    /\ columns = Fresh.columns
    /\ indexes = Fresh.indexes
    /\ rows = <<>>
    /\ nextRowId = 1
    /\ jsonl = <<>>
    /\ session_traces = NoTraces
    /\ nextUuid = 1
    /\ env \in {Absent, Str("A")}
    /\ lastOp = [op |-> "open"]
    /\ procs = NoProcs
    /\ db_lock = 0

NextTrace ==
    \/ \E hook_data \in TraceEvents : TrackedToSpan(hook_data)
    \/ \E session_id \in ResetSessions : ResetSession(session_id)

SpecTrace == InitTrace /\ [][NextTrace]_vars

----------------------------------------------------------------------------
(* SpecShape: cli.load_recent_traces over an archive that holds the same   *)
(* content once in the legacy shape and once in the current shape          *)

\* the largest n asked of load_recent_traces
MaxLoad == 2

\* the last n elements of a sequence: traces[-n:] for n > 0
LastN(traces, n) ==
    IF Len(traces) <= n THEN traces ELSE SubSeq(traces, Len(traces) - n + 1, Len(traces))

\* the loop of load_recent_traces over the files traces-<date>.jsonl, newest
\* date first: files[k] is the file of the k-th date, read when k files are
\* left; every line of a file is normalized and appended, and the loop stops
\* after the file that brings the list to n entries.  An exception of
\* normalize_trace is not caught.
RECURSIVE LoadFiles(_, _, _, _)
LoadFiles(files, k, traces, n) ==
    IF k = 0 THEN [raised |-> FALSE, traces |-> traces]
    ELSE LET res == [i \in 1..Len(files[k]) |-> normalize_trace(files[k][i])]
             read == traces \o [i \in 1..Len(files[k]) |->
                                   IF res[i].raised THEN Null ELSE res[i].trace]
         IN  IF \E i \in 1..Len(files[k]) : res[i].raised THEN [raised |-> TRUE]
             ELSE IF Len(read) >= n THEN [raised |-> FALSE, traces |-> read]
             ELSE LoadFiles(files, k - 1, read, n)

\* cli.load_recent_traces(n) over the archive files, oldest date first
load_recent_traces(files, n) ==
    IF n <= 0 THEN [raised |-> FALSE, traces |-> <<>>]
    ELSE LET res == LoadFiles(files, Len(files), <<>>, n)
         IN  IF res.raised THEN res
             ELSE [raised |-> FALSE, traces |-> LastN(res.traces, n)]

\* the line _fallback_capture archives: tool_name / timestamp / tool_input /
\* top-level hook_type and working_dir
LegacyShaped(c) ==
    [EmptyRecord EXCEPT !["session_id"] = c.session_id,
                        !["tool_name"] = c.name,
                        !["timestamp"] = c.time,
                        !["hook_type"] = c.hook_type,
                        !["tool_input"] = c.input,
                        !["working_dir"] = c.working_dir]

\* the line _write_jsonl archives: name / start_time / input_data /
\* attributes.hook_type and attributes.working_dir
CurrentShaped(c) ==
    [EmptyRecord EXCEPT !["session_id"] = c.session_id,
                        !["name"] = c.name,
                        !["start_time"] = c.time,
                        !["attributes"] = SomeMap,
                        !["attributes.hook_type"] = c.hook_type,
                        !["attributes.working_dir"] = c.working_dir,
                        !["input_data"] = c.input]

\* what one event carries: its name, time, hook type, payload, directory
Contents ==
    [session_id : {Str("A")},
     name : {Str(""), Str("Read")},
     time : {Str(""), Str("2026-01-01T00:00:00")},
     hook_type : {Str(""), Str("pre"), Str("PreToolUse")},
     input : {Str(""), EmptyMap, SomeMap},
     working_dir : {Str(""), Str("/w")}]

\* load_recent_traces(n) over the archive <<legacy line, current line>> of c
LoadRecentTraces(c, n) ==
    /\ LET res == load_recent_traces(<< <<LegacyShaped(c), CurrentShaped(c)>> >>, n)
       IN  lastOp' = [op |-> "load_recent_traces", content |-> c, n |-> n,
                      raised |-> res.raised,
                      traces |-> IF res.raised THEN <<>> ELSE res.traces]
    /\ UNCHANGED <<procs, db_lock, guardianVars, clock, columns, indexes, rows, nextRowId, jsonl,
                   session_traces, nextUuid, env>>

NextShape == \E c \in Contents, n \in 1..MaxLoad : LoadRecentTraces(c, n)

SpecShape == InitStore /\ [][NextShape]_vars

----------------------------------------------------------------------------
(* SpecPayload: to_span on raw events whose payloads are missing, null,    *)
(* strings, numbers and mappings                                           *)

\* the values a raw event carries under tool_input and tool_output
Payloads ==
    {Absent, Null, Str(""), Str("ls"), Num("0"), Num("5"), EmptyMap, SomeMap}

PayloadEvents ==
    {[EmptyEvent EXCEPT !["tool_name"] = Str("Read"), !["session_id"] = Str("A"),
                        !["tool_input"] = a, !["tool_output"] = b] :
        a \in Payloads, b \in Payloads}

NextPayload ==
    \E hook_data \in PayloadEvents, hook_type \in HookTypes : ToSpan(hook_data, hook_type)

SpecPayload == InitStore /\ [][NextPayload]_vars

----------------------------------------------------------------------------
(* SpecBlock: one ClaudeCodeAdapter through inject_fix and unblock_session *)

\* the most calls SpecBlock makes on the adapter
MaxCalls == 3

\* the defaults inject_fix takes from an empty metadata
DefaultSeverity == 50

\* ClaudeCodeAdapter.is_session_blocked
is_session_blocked(blocked, session_id) == session_id \in blocked

\* a faulty unblock_session that reports the unblocking and keeps the session
UnblockKeepsSession(blocked, session_id) ==
    [result |-> session_id \in blocked, blocked |-> blocked]

\* ClaudeCodeAdapter.unblock_session: the value returned and the set after
unblock_session(blocked, session_id) ==
    IF session_id \in blocked
    THEN [result |-> TRUE, blocked |-> blocked \ {session_id}]
    ELSE [result |-> FALSE, blocked |-> blocked]

\* adapter.inject_fix(directive, level, session_id) with no metadata; the
\* write of the alert file may fail
InjectFix(level, session_id, alertFails) ==
    /\ Len(LogOf(lastOp)) < MaxCalls
    /\ LET c == [session_id |-> session_id, severity |-> DefaultSeverity,
                 issues |-> <<>>, recommendation |-> "break_loop",
                 level |-> level, alertFails |-> alertFails, recent |-> <<>>]
           res == inject_fix(GuardianState, c, level)
       IN  /\ _blocked_sessions' = res.g.blocked
           /\ alert' = res.g.alert
           /\ lastOp' = [op |-> "inject_fix",
                         log |-> Append(LogOf(lastOp),
                                        [op |-> "inject_fix", level |-> level,
                                         session_id |-> session_id,
                                         raised |-> res.raised, result |-> ~res.raised,
                                         before |-> _blocked_sessions,
                                         after |-> res.g.blocked])]
    /\ UNCHANGED <<procs, db_lock, config, _fix_counts, audit, clock, columns, indexes, rows,
                   nextRowId, jsonl, session_traces, nextUuid, env>>

\* adapter.unblock_session(session_id)
UnblockSession(session_id) ==
    /\ Len(LogOf(lastOp)) < MaxCalls
    /\ LET res == unblock_session(_blocked_sessions, session_id)
       IN  /\ _blocked_sessions' = res.blocked
           /\ lastOp' = [op |-> "unblock_session",
                         log |-> Append(LogOf(lastOp),
                                        [op |-> "unblock_session", level |-> "none",
                                         session_id |-> session_id,
                                         raised |-> FALSE, result |-> res.result,
                                         before |-> _blocked_sessions,
                                         after |-> res.blocked])]
    /\ UNCHANGED <<procs, db_lock, config, _fix_counts, alert, audit, clock, columns, indexes, rows,
                   nextRowId, jsonl, session_traces, nextUuid, env>>

\* the injections of SpecBlock: every level, the alert write failing or not
\* at the level that writes before it blocks
Injections ==
    {[level |-> l, alertFails |-> FALSE] : l \in Levels}
        \cup {[level |-> "block", alertFails |-> TRUE]}

\* the session_id argument of inject_fix: a session, or None
InjectSessions == {Str("A"), Str("B"), Null}

NextBlock ==
    \/ \E i \in Injections, session_id \in InjectSessions :
          InjectFix(i.level, session_id, i.alertFails)
    \/ \E session_id \in Sessions : UnblockSession(session_id)

SpecBlock == InitStore /\ [][NextBlock]_vars

----------------------------------------------------------------------------
(* SpecCapture: the capture hook with and without the package installed,   *)
(* on every kind of stdin and with I/O failures                            *)

\* what the capture hook reads from stdin: a hook event, or JSON that is no
\* mapping
CaptureStdins == StoreStdin \cup {[kind |-> "nonmapping"]}

NextCapture ==
    \/ \E stdin \in CaptureStdins, hook_type \in HookTypes, f \in Faults :
          CaptureHook(stdin, hook_type, f.jsonl, f.db)
    \/ \E stdin \in CaptureStdins, hook_type \in HookTypes, jsonlFails \in BOOLEAN :
          FallbackCapture(stdin, hook_type, jsonlFails)

SpecCapture == InitStore /\ [][NextCapture]_vars

----------------------------------------------------------------------------
(* SpecTokenize: capture_hook.tokenize_trace_data with a tokenizer that    *)
(* may be disabled, unavailable, or raise while it tokenizes a field       *)

\* TOKENIZATION_FIELDS
TokenizationFields ==
    <<"tool_input", "tool_output", "user_input", "reasoning", "ai_output",
      "ai_response">>

\* what Tokenizer.tokenize_string / tokenize_dict return for a value
Tokenized(value) == JV(value.k, "<tokens>")

\* the loop over the fields from position i on, on the copy `result`: a
\* truthy string or mapping is replaced by its tokenized value; the
\* tokenizer raises when it is handed the field at position failsAt
RECURSIVE TokenizeFrom(_, _, _)
TokenizeFrom(result, i, failsAt) ==
    IF i > Len(TokenizationFields) THEN [raised |-> FALSE, result |-> result]
    ELSE LET field == TokenizationFields[i]
             value == result[field]
             calls == Truthy(value) /\ (IsStr(value) \/ IsDict(value))
         IN  IF calls /\ i = failsAt THEN [raised |-> TRUE, result |-> result]
             ELSE TokenizeFrom(IF calls THEN [result EXCEPT ![field] = Tokenized(value)]
                               ELSE result,
                               i + 1, failsAt)

\* a faulty tokenize_trace_data: after an exception it returns the copy, with
\* the fields tokenized so far
TokenizeKeepsPartial(trace, enabled, available, failsAt) ==
    IF ~enabled \/ ~available THEN [trace |-> trace, failed |-> FALSE]
    ELSE LET r == TokenizeFrom(trace, 1, failsAt)
         IN  [trace |-> r.result, failed |-> r.raised]

\* tokenize_trace_data(trace, session_id): the trace returned, and whether
\* the tokenizer raised.  `enabled` is TOKENIZATION_ENABLED, `available`
\* whether get_tokenizer built a Tokenizer.
tokenize_trace_data(trace, enabled, available, failsAt) ==
    IF ~enabled \/ ~available THEN [trace |-> trace, failed |-> FALSE]
    ELSE LET r == TokenizeFrom(trace, 1, failsAt)
         IN  [trace |-> IF r.raised THEN trace ELSE r.result, failed |-> r.raised]

\* the traces handed to tokenize_trace_data: the payloads and the assistant's
\* output None, a string or a mapping, the other fields None
TraceData ==
    {[field \in {TokenizationFields[i] : i \in 1..Len(TokenizationFields)} |->
         CASE field = "tool_input" -> a
           [] field = "tool_output" -> b
           [] field = "ai_output" -> c
           [] OTHER -> Null] :
        a \in {Null, Str("pii"), SomeMap},
        b \in {Null, Str("pii"), SomeMap},
        c \in {Null, Str("pii")}}

TokenizeTraceData(trace, enabled, available, failsAt) ==
    /\ LET res == tokenize_trace_data(trace, enabled, available, failsAt)
       IN  lastOp' = [op |-> "tokenize_trace_data", trace |-> trace,
                      enabled |-> enabled, available |-> available,
                      failsAt |-> failsAt, failed |-> res.failed,
                      result |-> res.trace]
    /\ UNCHANGED <<procs, db_lock, guardianVars, clock, columns, indexes, rows, nextRowId, jsonl,
                   session_traces, nextUuid, env>>

NextTokenize ==
    \E trace \in TraceData, enabled \in BOOLEAN, available \in BOOLEAN,
       failsAt \in 0..Len(TokenizationFields) :
          TokenizeTraceData(trace, enabled, available, failsAt)

SpecTokenize == InitStore /\ [][NextTokenize]_vars

----------------------------------------------------------------------------
(* SpecSanitize: cli.prepare_sync_payload and cli.sanitize_input           *)

\* the keys of a tool input in SpecSanitize
InputKeys == {"command", "api_key", "AUTH_TOKEN", "file_path"}

\* any(s in k.lower() for s in sensitive_keys), for the keys of InputKeys
Sensitive(k) == k \in {"api_key", "AUTH_TOKEN"}

\* the keys whose value is anonymized as a path
PathKeys == {"file_path", "path"}

\* a string of more than 500 characters, a path below the home directory,
\* and a long one
LongString == Str("x * 600")
HomePath == Str("/home/u/f")
LongHomePath == Str("/home/u/x * 600")

\* a mapping that holds a secret under a sensitive key
SecretMap == JV("map", "{password: hunter2}")

Redacted == Str("[REDACTED]")

\* len(v) > 500 of a string
IsLong(v) == v \in {LongString, LongHomePath}

\* v[:500] + "...[truncated]"
Truncated(v) == Str("x * 500...[truncated]")

\* anonymize_path(str(v)): the home directory replaced by ~
anonymize_path(v) ==
    CASE v = HomePath -> Str("~/f")
      [] v = LongHomePath -> Str("~/x * 600")
      [] OTHER -> Str(v.v)

\* cli.sanitize_input: one pass over the items of the mapping
sanitize_input(inp) ==
    [k \in DOMAIN inp |->
        IF inp[k].k = "absent" THEN Absent
        ELSE IF Sensitive(k) THEN Redacted
        ELSE IF k \in PathKeys THEN anonymize_path(inp[k])
        ELSE IF IsStr(inp[k]) /\ IsLong(inp[k]) THEN Truncated(inp[k])
        ELSE inp[k]]

\* the entry prepare_sync_payload builds for one trace; every output of
\* SpecSanitize is shorter than 1000 characters
prepare_sync_payload(t, include_outputs) ==
    [tool_name |-> t.tool_name,
     session_id |-> t.session_id,
     tool_input |-> sanitize_input(t.tool_input),
     tool_output |-> IF include_outputs /\ Truthy(t.tool_output)
                     THEN t.tool_output ELSE Absent]

\* the normalized traces handed to prepare_sync_payload
SyncTraces ==
    {[tool_name |-> Str("Bash"), session_id |-> Str("A"),
      tool_input |-> [k \in InputKeys |->
                         CASE k = "command" -> a
                           [] k = "api_key" -> b
                           [] k = "AUTH_TOKEN" -> c
                           [] OTHER -> d],
      tool_output |-> o] :
        a \in {Absent, Str("ls"), LongString, SecretMap},
        b \in {Absent, Str("sk-1")},
        c \in {Absent, Str("tok")},
        d \in {Absent, HomePath, LongHomePath},
        o \in {Null, Str("done"), SecretMap}}

PrepareSyncPayload(t, include_outputs) ==
    /\ lastOp' = [op |-> "prepare_sync_payload", t |-> t,
                  include_outputs |-> include_outputs,
                  clean |-> prepare_sync_payload(t, include_outputs)]
    /\ UNCHANGED <<procs, db_lock, guardianVars, clock, columns, indexes, rows, nextRowId, jsonl,
                   session_traces, nextUuid, env>>

NextSanitize ==
    \E t \in SyncTraces, include_outputs \in BOOLEAN : PrepareSyncPayload(t, include_outputs)

SpecSanitize == InitStore /\ [][NextSanitize]_vars

----------------------------------------------------------------------------
(* SpecLoad: cli.load_recent_traces over archives whose lines are spread   *)
(* over the files of several dates                                         *)

\* the most lines an archive of SpecLoad holds
MaxLines == 5

RECURSIVE SumTo(_, _)
SumTo(d, k) == IF k = 0 THEN 0 ELSE d[k] + SumTo(d, k - 1)

\* how the lines are spread over the files: the number of lines of each
\* date's file, oldest date first
Distributions ==
    {d \in UNION {[1..k -> 1..MaxLines] : k \in 0..MaxLines} : SumTo(d, Len(d)) <= MaxLines}

\* the i-th line written to the archive, by _fallback_capture at time i
ArchiveLine(i) ==
    LegacyShaped([session_id |-> Str("A"), name |-> Str("Read"),
                  time |-> Str(ToString(i)), hook_type |-> Str("PreToolUse"),
                  input |-> SomeMap, working_dir |-> Str("/w")])

\* the files of an archive with the distribution d
ArchiveFiles(d) ==
    [k \in 1..Len(d) |-> [i \in 1..d[k] |-> ArchiveLine(SumTo(d, k - 1) + i)]]

\* load_recent_traces(n) over the archive with the distribution d
LoadFromFiles(d, n) ==
    /\ LET res == load_recent_traces(ArchiveFiles(d), n)
       IN  lastOp' = [op |-> "load_recent_traces", distribution |-> d, n |-> n,
                      written |-> SumTo(d, Len(d)),
                      raised |-> res.raised,
                      traces |-> IF res.raised THEN <<>> ELSE res.traces]
    /\ UNCHANGED <<procs, db_lock, guardianVars, clock, columns, indexes, rows, nextRowId, jsonl,
                   session_traces, nextUuid, env>>

NextLoad == \E d \in Distributions, n \in 0..MaxLines : LoadFromFiles(d, n)

SpecLoad == InitStore /\ [][NextLoad]_vars

----------------------------------------------------------------------------
(* SpecRecommend: Guardian._get_recommendation on the detection results,   *)
(* in every order the orchestrator may hand them over                      *)

\* what one detector may answer: fired or not; the loop detector with a
\* severity below or at CriticalSeverity
DetectorAnswers ==
    {[detector_name |-> n, detected |-> b, severity |-> v, issues |-> <<n>>] :
        n \in {"loop", "repetition", "coordination"}, b \in BOOLEAN,
        v \in {CriticalSeverity - 1, CriticalSeverity}}

\* the detection results: at most one answer of each detector, in any order
DetectionLists ==
    {l \in UNION {[1..k -> DetectorAnswers] : k \in 0..3} :
        /\ \A i, j \in 1..Len(l) : i # j => l[i].detector_name # l[j].detector_name
        /\ \A i \in 1..Len(l) :
               l[i].detector_name # "loop" => l[i].severity = CriticalSeverity}

GetRecommendation(detection_results) ==
    /\ lastOp' = [op |-> "get_recommendation", detection_results |-> detection_results,
                  recommendation |-> _get_recommendation(detection_results)]
    /\ UNCHANGED <<procs, db_lock, guardianVars, clock, columns, indexes, rows, nextRowId, jsonl,
                   session_traces, nextUuid, env>>

NextRecommend == \E l \in DetectionLists : GetRecommendation(l)

SpecRecommend == InitStore /\ [][NextRecommend]_vars

----------------------------------------------------------------------------
(* SpecHookAuto: the guardian hook, one process per tool call, with the    *)
(* guardian configured for auto mode                                       *)

NextHookAuto ==
    \E s \in Sessions, installed \in BOOLEAN, in \in AutoInputs :
        GuardianHook([kind |-> "mapping", data |-> ToolCall(s)], installed, in)

SpecHookAuto == InitAuto /\ [][NextHookAuto]_vars

----------------------------------------------------------------------------
(* SpecWarn: Guardian.analyze in every mode, with detectors that fire and   *)
(* detectors that stay quiet while the scoring engine answers any score    *)

LoopQuiet ==
    [detector_name |-> "loop", detected |-> FALSE, severity |-> 0, issues |-> <<>>]

WarnInputs ==
    GuardInputs
    \cup {[detection_results |-> <<LoopQuiet>>, score |-> n, level |-> "suggest",
            fault |-> "none"] : n \in Scores}

NextWarn ==
    \E in \in WarnInputs : Analyze(ToolCall(Str("A")), Null, in)

SpecWarn == InitGuard /\ [][NextWarn]_vars

----------------------------------------------------------------------------
(* SpecDisabled: Guardian.analyze in every configuration, on a store the    *)
(* capture hook writes to as well                                          *)

NextDisabled ==
    \/ \E stdin \in StoreStdin : CaptureHook(stdin, "pre", FALSE, FALSE)
    \/ \E in \in GuardInputs : Analyze(ToolCall(Str("A")), Null, in)

SpecDisabled == InitGuard /\ [][NextDisabled]_vars

----------------------------------------------------------------------------
(* SpecPrefer: normalize_trace on records that carry, for each field it    *)
(* resolves from two shapes, the legacy key, the current key, or both      *)

OtherMap == JV("map", "{command: ls}")

\* records with distinct values under the legacy and the current key
TwoShaped ==
    {[EmptyRecord EXCEPT !["session_id"] = Str("A"),
                         !["attributes"] = SomeMap,
                         !["tool_name"] = a1, !["name"] = a2,
                         !["timestamp"] = b1, !["start_time"] = b2,
                         !["hook_type"] = c1, !["attributes.hook_type"] = c2,
                         !["tool_input"] = d1, !["input_data"] = d2] :
        a1 \in {Absent, Str("Read")}, a2 \in {Absent, Str("Edit")},
        b1 \in {Absent, Str("2026-01-01T00:00:00")},
        b2 \in {Absent, Str("2026-01-02T00:00:00")},
        c1 \in {Absent, Str("PostToolUse")}, c2 \in {Absent, Str("pre")},
        d1 \in {Absent, SomeMap}, d2 \in {Absent, OtherMap}}

NextPrefer == \E t \in TwoShaped : NormalizeTrace(t)

SpecPrefer == InitStore /\ [][NextPrefer]_vars

----------------------------------------------------------------------------
(* SpecAppend: every operation that touches the directory of the store,     *)
(* for events of two days, with I/O failures                               *)

\* TraceStorage.store of a span the caller built for an event that started
\* at start_time, with or without the raw payload
StoreSpanAt(start_time, raw_data, jsonlFails, dbFails) ==
    /\ Room
    /\ nextUuid + 1 <= MaxUuid
    /\ StoreCall(CallerSpan(nextUuid, Str("A"), "Read", start_time), raw_data,
                 jsonlFails, dbFails)
    /\ nextUuid' = nextUuid + 1
    /\ UNCHANGED <<procs, db_lock, guardianVars, clock, columns, indexes, session_traces, env>>

NextAppend ==
    \/ OpenStore
    \/ \E stdin \in MigrateStdin : CaptureHook(stdin, "pre", FALSE, FALSE)
    \/ \E t \in {0, SecondsPerDay}, raw \in {Null, ToolCall(Str("A"))}, f \in Faults :
          StoreSpanAt(t, raw, f.jsonl, f.db)
    \/ \E i \in 1..MaxStored, f \in Faults : StoreAgain(i, f.jsonl, f.db)
    \/ \E s \in Sessions : ClearSession(s)

SpecAppend == InitStore /\ [][NextAppend]_vars

----------------------------------------------------------------------------
(* SpecFix: one Guardian in each mode, two sessions, with unblock_session   *)

\* auto mode with a cap of SmallCap and of SmallCap + 1, manual and report
FixConfigs ==
    AutoConfigs
    \cup {[GuardianConfig EXCEPT !.mode = "auto", !.max_auto_fixes = SmallCap + 1]}
    \cup {[GuardianConfig EXCEPT !.mode = m] : m \in {"manual", "report"}}

\* the answers of the engines in SpecFix: an approved fix with and without a
\* block, a finding that is not approved, and a finding below the threshold
FixInputs ==
    {[detection_results |-> <<LoopFired(CriticalSeverity)>>, score |-> CriticalSeverity,
      level |-> l, fault |-> "none"] : l \in {"suggest", "block"}}
    \cup {[detection_results |-> <<CoordinationFired>>, score |-> CriticalSeverity,
            level |-> "block", fault |-> "none"],
           [detection_results |-> <<LoopFired(CriticalSeverity)>>,
            score |-> DefaultThreshold - 1, level |-> "suggest", fault |-> "none"]}

NextFix ==
    \/ \E s \in Sessions, in \in FixInputs : Analyze(ToolCall(s), Null, in)
    \/ UnblockSession(Str("A"))

SpecFix == InitGuardian(FixConfigs) /\ [][NextFix]_vars

----------------------------------------------------------------------------
(* SpecOpen: several processes run _init_db on a table of the old schema    *)
(* while a fallback capture of another process writes to it.  Every SQL    *)
(* statement is one step.  The ALTER and CREATE INDEX statements run in    *)
(* autocommit mode and need the write lock for the statement only; the     *)
(* INSERT of the fallback capture opens a transaction and keeps the lock   *)
(* until its commit.  A statement that finds the lock taken waits for the  *)
(* busy timeout of the connection and then raises sqlite3.OperationalError *)
(* ("database is locked").                                                 *)

MaxOpeners == 2
Openers == 1..MaxOpeners
\* the process of the fallback capture
Writer == MaxOpeners + 1

\* a process before its first statement
Starting(kind) == [kind |-> kind, pc |-> "start", k |-> 1]

\* another process holds the write lock
Locked(p) == db_lock \notin {0, p}

InitOpen ==
    /\ NoGuardian
    /\ clock = 0
    /\ columns = OldCols
    /\ indexes = {"idx_session", "idx_tool"}
    /\ rows = <<>>
    /\ nextRowId = 1
    /\ jsonl = <<>>
    /\ session_traces = NoTraces
    /\ nextUuid = 1
    /\ env = Absent
    /\ lastOp = [op |-> "none"]
    /\ procs = [p \in Openers \cup {Writer} |->
                   IF p \in Openers THEN Starting("init_db") ELSE Starting("fallback")]
    /\ db_lock = 0

\* _init_db: connect, look the table up and read its columns
ReadSchema(p) ==
    /\ procs[p].pc = "start"
    /\ procs' = [procs EXCEPT ![p].pc = IF "span_id" \notin columns THEN "alter"
                                        ELSE "indexes"]
    /\ UNCHANGED <<guardianVars, clock, columns, indexes, rows, nextRowId, jsonl,
                   session_traces, nextUuid, env, lastOp, db_lock>>

\* _init_db: the k-th ALTER TABLE of the try block; a duplicate column raises
\* and ends the block
AlterColumn(p) ==
    /\ procs[p].pc = "alter"
    /\ ~Locked(p)
    /\ LET col == AlterOrder[procs[p].k]
       IN  IF col \in columns
           THEN /\ procs' = [procs EXCEPT ![p].pc = "indexes"]
                /\ UNCHANGED columns
           ELSE /\ columns' = columns \cup {col}
                /\ procs' = IF procs[p].k = Len(AlterOrder)
                            THEN [procs EXCEPT ![p].pc = "indexes"]
                            ELSE [procs EXCEPT ![p].k = @ + 1]
    /\ UNCHANGED <<guardianVars, clock, indexes, rows, nextRowId, jsonl,
                   session_traces, nextUuid, env, lastOp, db_lock>>

\* _init_db: an ALTER TABLE that timed out on the lock raises
\* OperationalError as well, and the except clause ends the block
AlterLocked(p) ==
    /\ procs[p].pc = "alter"
    /\ Locked(p)
    /\ procs' = [procs EXCEPT ![p].pc = "indexes"]
    /\ UNCHANGED <<guardianVars, clock, columns, indexes, rows, nextRowId, jsonl,
                   session_traces, nextUuid, env, lastOp, db_lock>>

\* _init_db: the first block of CREATE INDEX statements
CreateIndexes(p) ==
    /\ procs[p].pc = "indexes"
    /\ indexes' = IF Locked(p) THEN indexes ELSE indexes \cup BaseIndexes(columns)
    /\ procs' = [procs EXCEPT ![p].pc = "new_indexes"]
    /\ UNCHANGED <<guardianVars, clock, columns, rows, nextRowId, jsonl,
                   session_traces, nextUuid, env, lastOp, db_lock>>

\* _init_db: the second block reads the columns again and indexes the new
\* ones; then commit and close
CreateNewIndexes(p) ==
    /\ procs[p].pc = "new_indexes"
    /\ indexes' = IF Locked(p) THEN indexes ELSE indexes \cup NewIndexes(columns)
    /\ procs' = [procs EXCEPT ![p].pc = "done"]
    /\ UNCHANGED <<guardianVars, clock, columns, rows, nextRowId, jsonl,
                   session_traces, nextUuid, env, lastOp, db_lock>>

\* _fallback_capture: the INSERT opens a transaction and takes the write lock
FallbackInsert(p) ==
    /\ procs[p].pc = "start"
    /\ db_lock = 0
    /\ FallbackInsertCols \subseteq columns
    /\ db_lock' = p
    /\ procs' = [procs EXCEPT ![p].pc = "commit"]
    /\ UNCHANGED <<guardianVars, clock, columns, indexes, rows, nextRowId, jsonl,
                   session_traces, nextUuid, env, lastOp>>

\* _fallback_capture: conn.commit() writes the row and releases the lock
FallbackCommit(p) ==
    /\ procs[p].pc = "commit"
    /\ rows' = Append(rows, FallbackRow(FallbackTrace(ToolCall(Str("A")), "PreToolUse",
                                                      env, clock),
                                        nextRowId, clock))
    /\ nextRowId' = nextRowId + 1
    /\ db_lock' = 0
    /\ procs' = [procs EXCEPT ![p].pc = "done"]
    /\ UNCHANGED <<guardianVars, clock, columns, indexes, jsonl, session_traces,
                   nextUuid, env, lastOp>>

NextOpen ==
    \/ \E p \in Openers : ReadSchema(p)
    \/ \E p \in Openers : AlterColumn(p)
    \/ \E p \in Openers : AlterLocked(p)
    \/ \E p \in Openers : CreateIndexes(p)
    \/ \E p \in Openers : CreateNewIndexes(p)
    \/ FallbackInsert(Writer)
    \/ FallbackCommit(Writer)

SpecOpen == InitOpen /\ [][NextOpen]_vars

----------------------------------------------------------------------------
(* SpecWriters: several processes call TraceStorage.store on the same date  *)
(* partition and the same index.  The append of a line is one step; the    *)
(* INSERT of _write_db opens a transaction and keeps the write lock until  *)
(* conn.commit().  An exception inside _write_db is caught by its except   *)
(* clause, which the call then leaves without having closed the connection.*)

MaxWriters == 2
StoreProcs == 1..MaxWriters

\* the spans the processes store: the error of a tool may be a mapping, which
\* sqlite3 cannot bind
WriterSpans(p) ==
    {[CallerSpan(p, Str("A"), "Read", 0) EXCEPT !.error_message = e] :
        e \in {Null, SomeMap}}

InitWriters ==
    /\ NoGuardian
    /\ clock = 0
    /\ columns = Fresh.columns
    /\ indexes = Fresh.indexes
    /\ rows = <<>>
    /\ nextRowId = 1
    /\ jsonl = <<>>
    /\ session_traces = NoTraces
    /\ nextUuid = 1
    /\ env = Absent
    /\ lastOp = [op |-> "open"]
    /\ procs \in [StoreProcs -> [kind : {"store"}, pc : {"start"}, conn : {FALSE},
                                 span : UNION {WriterSpans(p) : p \in StoreProcs}]]
    /\ \A p \in StoreProcs : procs[p].span \in WriterSpans(p)
    /\ db_lock = 0

\* store: _write_jsonl appends the line of the span
AppendLine(p) ==
    /\ procs[p].pc = "start"
    /\ jsonl' = _write_jsonl(jsonl, procs[p].span, Null)
    /\ procs' = [procs EXCEPT ![p].pc = "insert"]
    /\ UNCHANGED <<guardianVars, clock, columns, indexes, rows, nextRowId,
                   session_traces, nextUuid, env, lastOp, db_lock>>

\* _write_db: connect and INSERT; the statement takes the write lock
InsertRow(p) ==
    /\ procs[p].pc = "insert"
    /\ ~Locked(p)
    /\ ~WriteDbRaises(columns, procs[p].span, FALSE)
    /\ db_lock' = p
    /\ procs' = [procs EXCEPT ![p].pc = "commit", ![p].conn = TRUE]
    /\ UNCHANGED <<guardianVars, clock, columns, indexes, rows, nextRowId, jsonl,
                   session_traces, nextUuid, env, lastOp>>

\* _write_db: connect and INSERT; the statement raises (a value that cannot
\* be bound, a missing column, or the lock not released within the busy
\* timeout), the except clause prints and the call returns
InsertRaises(p) ==
    /\ procs[p].pc = "insert"
    /\ Locked(p) \/ WriteDbRaises(columns, procs[p].span, FALSE)
    /\ procs' = [procs EXCEPT ![p].pc = "returned", ![p].conn = TRUE]
    /\ UNCHANGED <<guardianVars, clock, columns, indexes, rows, nextRowId, jsonl,
                   session_traces, nextUuid, env, lastOp, db_lock>>

\* _write_db: conn.commit() writes the row and releases the lock
CommitRow(p) ==
    /\ procs[p].pc = "commit"
    /\ rows' = InsertOrReplace(rows, DbRow(procs[p].span, nextRowId, clock))
    /\ nextRowId' = nextRowId + 1
    /\ db_lock' = 0
    /\ procs' = [procs EXCEPT ![p].pc = "close"]
    /\ UNCHANGED <<guardianVars, clock, columns, indexes, jsonl, session_traces,
                   nextUuid, env, lastOp>>

\* _write_db: conn.close(), and the call returns
CloseConnection(p) ==
    /\ procs[p].pc = "close"
    /\ procs' = [procs EXCEPT ![p].pc = "returned", ![p].conn = FALSE]
    /\ UNCHANGED <<guardianVars, clock, columns, indexes, rows, nextRowId, jsonl,
                   session_traces, nextUuid, env, lastOp, db_lock>>

NextWriters ==
    \/ \E p \in StoreProcs : AppendLine(p)
    \/ \E p \in StoreProcs : InsertRow(p)
    \/ \E p \in StoreProcs : InsertRaises(p)
    \/ \E p \in StoreProcs : CommitRow(p)
    \/ \E p \in StoreProcs : CloseConnection(p)

SpecWriters == InitWriters /\ [][NextWriters]_vars

----------------------------------------------------------------------------
(* Claims about the storage layer *)

\* the span a store call was given, for the two operations that store
StoredSpan == lastOp.span
IsStoreOp ==
    \/ lastOp.op = "store"
    \/ lastOp.op = "capture" /\ lastOp.converted

InJsonl(span_id) == \E j \in 1..Len(jsonl) : jsonl[j].span.span_id = span_id
InIndex(span_id) == \E i \in 1..Len(rows) : rows[i].span_id = span_id

\* C1: the two writes of store are each attempted whatever the other's
\* outcome: when only the index write fails the JSONL line is there, and when
\* only the JSONL append fails the index row is there.
C1_WriteIndependence ==
    IsStoreOp =>
        /\ (lastOp.dbFails /\ ~lastOp.jsonlFails) => InJsonl(StoredSpan.span_id)
        /\ (lastOp.jsonlFails /\ ~lastOp.dbFails) => InIndex(StoredSpan.span_id)

\* the session id the raw hook data of a JSONL line carries, Null if none
RawSession(line) ==
    IF "session_id" \in DOMAIN line.raw THEN Get(line.raw, "session_id") ELSE Null

\* the index rows of events whose raw hook data carried session_id s
CapturedUnder(s) ==
    {i \in 1..Len(rows) :
        \E j \in 1..Len(jsonl) :
            /\ jsonl[j].span.span_id = rows[i].span_id
            /\ RawSession(jsonl[j]) = s}

ResultIds == {lastOp.result[i].span_id : i \in 1..Len(lastOp.result)}

\* C2: an event converted from hook data with session_id S and stored is
\* indexed under S, so get_recent(session_id=S) returns it (up to the limit).
C2_IndexedUnderSession ==
    /\ \A s \in Sessions : \A i \in CapturedUnder(s) : rows[i].session_id = s
    /\ (lastOp.op = "get_recent" /\ lastOp.session_id \in Sessions) =>
            \/ Len(lastOp.result) = lastOp.limit
            \/ \A i \in CapturedUnder(lastOp.session_id) : rows[i].span_id \in ResultIds

\* C3: get_recent(limit=k) without a session returns min(k, N) events, the
\* most recently stored first: insertion order reversed.
C3_RoundTrip ==
    (lastOp.op = "get_recent" /\ ~Truthy(lastOp.session_id)) =>
        LET n == Min(lastOp.limit, Len(rows))
        IN  /\ Len(lastOp.result) = n
            /\ \A i \in 1..n : lastOp.result[i].span_id = rows[Len(rows) + 1 - i].span_id

\* the rows of the spans whose own session attribute is s
StoredUnder(s) == {i \in 1..Len(rows) : rows[i].attributes["session_id"] = s}

\* C4: a query for session B returns only events stored under B, never one
\* stored under another session, and all of them up to the limit.
C4_SessionIsolation ==
    /\ (lastOp.op = "get_recent" /\ lastOp.session_id \in Sessions) =>
            /\ Len(lastOp.result) = Min(lastOp.limit, Cardinality(StoredUnder(lastOp.session_id)))
            /\ Cardinality(ResultIds) = Len(lastOp.result)
            /\ \A i \in 1..Len(lastOp.result) :
                    lastOp.result[i].attributes["session_id"] = lastOp.session_id
    /\ (lastOp.op = "get_tool_sequence" /\ lastOp.session_id \in Sessions) =>
            /\ Len(lastOp.result) = Min(lastOp.limit, Cardinality(StoredUnder(lastOp.session_id)))
            /\ \E f \in [1..Len(lastOp.result) -> StoredUnder(lastOp.session_id)] :
                    /\ \A i, j \in 1..Len(lastOp.result) : i # j => f[i] # f[j]
                    /\ \A i \in 1..Len(lastOp.result) : lastOp.result[i] = rows[f[i]].tool_name

\* a query for B that returns an event while A and B both have events stored,
\* B's stored before A's
C4_Witness ==
    /\ lastOp.op = "get_recent"
    /\ lastOp.session_id = Str("B")
    /\ Len(lastOp.result) >= 1
    /\ \E i, j \in 1..Len(rows) :
            /\ i < j
            /\ rows[i].session_id = Str("B")
            /\ rows[j].session_id = Str("A")

\* C5: index writes are idempotent per span_id: however often an event is
\* stored, one row carries its span_id.
C5_UniqueSpanId ==
    \A i, j \in 1..Len(rows) : rows[i].span_id = rows[j].span_id => i = j

----------------------------------------------------------------------------
(* Claims about the schema migration *)

\* C6: after the store is opened on a traces table that has any subset of the
\* newer columns, all eight exist and the rows stored before are still there;
\* a store call that follows writes its index row.
C6_MigrationCompletes ==
    /\ lastOp.op = "init_db" =>
            /\ NewCols \subseteq columns
            /\ rows = lastOp.before.rows
    /\ (lastOp.op = "capture" /\ lastOp.converted) =>
            /\ NewCols \subseteq columns
            /\ InIndex(lastOp.span.span_id)

\* C7: a second _init_db right after a first one does not raise and leaves
\* the columns, the indexes and the rows as the first one left them.
C7_IdempotentMigration ==
    (lastOp.op = "init_db" /\ lastOp.second) =>
        /\ ~lastOp.raised
        /\ columns = lastOp.before.columns
        /\ indexes = lastOp.before.indexes
        /\ rows = lastOp.before.rows

\* a second open of a store whose table was migrated from the old schema and
\* holds a row written before the migration
C7_Witness ==
    /\ lastOp.op = "init_db"
    /\ lastOp.second
    /\ NewCols \subseteq columns
    /\ "model" \in columns
    /\ \E i \in 1..Len(rows) : rows[i].span_id = Null

----------------------------------------------------------------------------
(* Claims about normalization *)

\* C8: normalization is total: to_span and normalize_trace return a record for
\* every mapping, whatever fields are missing and whatever values they hold.
C8_NormalizationTotal ==
    /\ lastOp.op = "to_span" => lastOp.converted
    /\ lastOp.op = "normalize_trace" => ~lastOp.raised

\* a tool name that can be used: a non-empty string
Usable(x) == IsStr(x) /\ x.v # ""

\* C9: every normalized event has a non-empty name, and the name is "unknown"
\* when neither the legacy nor the current key holds a usable tool name.
C9_NonEmptyName ==
    /\ (lastOp.op = "to_span" /\ lastOp.converted) =>
            /\ lastOp.span.name # ""
            /\ (~Usable(lastOp.hook_data["tool_name"]) /\ ~Usable(lastOp.hook_data["tool"]))
                   => lastOp.span.name = "unknown"
    /\ (lastOp.op = "normalize_trace" /\ ~lastOp.raised) =>
            /\ Usable(lastOp.trace.tool_name)
            /\ (~Usable(lastOp.t["tool_name"]) /\ ~Usable(lastOp.t["name"]))
                   => lastOp.trace.tool_name = Str("unknown")

\* C10: the record of a hook invocation carries the phase of the invocation:
\* for a pre hook hook_type pre, IN_PROGRESS and no end_time; for a post hook,
\* also through the capture hook and capture_span, hook_type post, an end_time
\* and ERROR iff the raw event has an error field, else OK.
C10_HookPhase ==
    (lastOp.op \in {"to_span", "capture"} /\ lastOp.converted) =>
        LET span == lastOp.span
            raw == IF lastOp.op = "capture" THEN HookData(lastOp.stdin)
                   ELSE lastOp.hook_data
        IN  /\ lastOp.hook_type = "pre" =>
                    /\ span.attributes.hook_type = Str("pre")
                    /\ span.status = "in_progress"
                    /\ span.end_time = NoTime
            /\ lastOp.hook_type = "post" =>
                    /\ span.attributes.hook_type = Str("post")
                    /\ span.end_time # NoTime
                    /\ span.status = IF Has(raw, "error") THEN "error" ELSE "ok"

----------------------------------------------------------------------------
(* Claims about the guardian *)

\* the combined severity of the last analyze call
CombinedSeverity ==
    IF lastOp.in.detection_results # <<>> THEN lastOp.in.score ELSE 0

\* the last operation is an analyze call of an enabled guardian that returned
Analyzed == lastOp.op = "analyze" /\ ~lastOp.raised /\ config.enabled

\* C11: analyze answers "allowed", with should_block false, iff the combined
\* severity is strictly below severity_threshold; at the threshold the
\* configured mode decides.
C11_AllowedBelowThreshold ==
    Analyzed =>
        LET r == lastOp.result
        IN  /\ r.action_taken = "allowed" <=> CombinedSeverity < config.severity_threshold
            /\ r.action_taken = "allowed" => ~r.should_block
            /\ CombinedSeverity = config.severity_threshold =>
                   r.action_taken \in
                      CASE config.mode = "report" -> {"logged_only"}
                        [] config.mode = "auto" -> {"auto_fixed", "escalated_to_manual"}
                        [] OTHER -> {"warning", "blocked_for_approval"}

\* a call whose combined severity equals the threshold and is not allowed
C11_Witness ==
    /\ Analyzed
    /\ CombinedSeverity = config.severity_threshold
    /\ lastOp.result.action_taken # "allowed"

\* C12: in report mode no result has should_block and no session is ever
\* added to the blocked sessions.
C12_ReportNeverBlocks ==
    config.mode = "report" =>
        /\ _blocked_sessions = {}
        /\ (lastOp.op = "analyze" /\ ~lastOp.raised) => ~lastOp.result.should_block

\* a report-mode call of critical severity for which the enforcement engine
\* answers BLOCK
C12_Witness ==
    /\ Analyzed
    /\ config.mode = "report"
    /\ CombinedSeverity >= CriticalSeverity
    /\ CombinedSeverity >= config.severity_threshold
    /\ lastOp.in.level = "block"
    /\ lastOp.result.action_taken = "logged_only"

\* the last call is answered without blocking and with at most a warning
AtMostWarned ==
    /\ ~lastOp.result.should_block
    /\ lastOp.result.action_taken \in {"allowed", "warning"}

\* the last call is blocked for approval
BlockedForApproval ==
    /\ lastOp.result.should_block
    /\ lastOp.result.action_taken = "blocked_for_approval"

\* C13: in manual mode, for every configured severity_threshold, a call is
\* blocked (should_block, blocked_for_approval) iff its combined severity is
\* at least 60; otherwise it is not blocked and at most warned.
C13_ManualBlocksFromSixty ==
    (Analyzed /\ config.mode = "manual") =>
        IF CombinedSeverity >= CriticalSeverity THEN BlockedForApproval
        ELSE AtMostWarned

\* C13 as amended: in manual mode a call is blocked iff its combined severity
\* is at least 60 and at least severity_threshold; otherwise it is not
\* blocked and at most warned.
C13_ManualBlocksCritical ==
    (Analyzed /\ config.mode = "manual") =>
        IF CombinedSeverity >= CriticalSeverity
           /\ CombinedSeverity >= config.severity_threshold
        THEN BlockedForApproval
        ELSE AtMostWarned

\* a manual-mode call blocked at a severity of exactly 60
C13_Witness ==
    /\ Analyzed
    /\ config.mode = "manual"
    /\ CombinedSeverity = CriticalSeverity
    /\ BlockedForApproval

\* the session of the last analyze call
AnalyzedSession == lastOp.hook_data["session_id"]

\* C14: in auto mode no fix counter exceeds max_auto_fixes: a call at or above
\* the threshold is applied (auto_fixed, counter + 1) only if its
\* recommendation is approved and the session is below the cap; otherwise it
\* is escalated with should_block and the reason fix_type_not_approved or
\* max_auto_fixes_reached.
C14_AutoFixCap ==
    config.mode = "auto" =>
        /\ \A s \in DOMAIN _fix_counts : _fix_counts[s] <= config.max_auto_fixes
        /\ (Analyzed /\ CombinedSeverity >= config.severity_threshold) =>
              LET r == lastOp.result
                  was == FixCount(lastOp.before.fix_counts, AnalyzedSession)
                  now == FixCount(_fix_counts, AnalyzedSession)
                  approved == r.recommendation \in config.auto_fix_types
              IN  IF approved /\ was < config.max_auto_fixes
                  THEN r.action_taken = "auto_fixed" /\ now = was + 1
                  ELSE /\ r.action_taken = "escalated_to_manual"
                       /\ r.should_block
                       /\ now = was
                       /\ r.reason = IF approved THEN "max_auto_fixes_reached"
                                      ELSE "fix_type_not_approved"

\* an approved fix escalated because the session is at the cap
C14_Witness ==
    /\ Analyzed
    /\ config.mode = "auto"
    /\ lastOp.result.reason = "max_auto_fixes_reached"
    /\ FixCount(_fix_counts, AnalyzedSession) = config.max_auto_fixes

----------------------------------------------------------------------------
(* Claims about the guardian hook *)

\* C15: the guardian hook exits with a status other than 0 only when the
\* analysis result has should_block or the fallback detector found a loop,
\* whatever stdin holds and whichever step of the analysis fails.
C15_HookFailsOpen ==
    (lastOp.op = "guardian_hook" /\ lastOp.exit # 0) =>
        lastOp.should_block \/ lastOp.loop

\* the sequence holds n consecutive identical names somewhere
HasRun(seq, n) ==
    \E i \in 1..(Len(seq) - n + 1) : \A j \in i..(i + n - 1) : seq[j] = seq[i]

\* C16: the loop detector flags a tool sequence iff it holds a run of at
\* least 5 consecutive identical names: a longest run of 4 is never flagged,
\* a run of 5 or more always is.
C16_LoopIffRunOfFive ==
    lastOp.op = "loop_detection" =>
        (lastOp.detected <=> HasRun(lastOp.tool_sequence, 5))

\* a flagged sequence whose longest run is exactly 5, with another name in it
C16_Witness ==
    /\ lastOp.op = "loop_detection"
    /\ lastOp.detected
    /\ HasRun(lastOp.tool_sequence, 5)
    /\ ~HasRun(lastOp.tool_sequence, 6)
    /\ Len(lastOp.tool_sequence) = 6

\* the ids of the events whose raw hook data carried session_id s
EventsOfSession(s) ==
    {jsonl[j].span.span_id : j \in {k \in 1..Len(jsonl) : RawSession(jsonl[k]) = s}}

\* C17: the window of recent events evaluated for a tool call of session S
\* holds only events of session S, on the analysis path and on the fallback
\* path, whatever other sessions wrote.
C17_WindowOfSession ==
    (/\ lastOp.op = "guardian_hook"
     /\ lastOp.stdin.kind = "mapping"
     /\ lastOp.path \in {"analyzed", "fallback"}) =>
        \A i \in 1..Len(lastOp.trace) :
            lastOp.trace[i].span_id \in EventsOfSession(lastOp.stdin.data["session_id"])

\* the positions of the log that hold an event, and those that reset s
EventsAt == {i \in 1..Len(LogOf(lastOp)) : LogOf(lastOp)[i].op = "to_span"}
ResetsOf(s) ==
    {i \in 1..Len(LogOf(lastOp)) :
        LogOf(lastOp)[i].op = "reset_session" /\ LogOf(lastOp)[i].session_id = s}

\* C18: within one TraceConverter, two events of the same session with no
\* reset of that session between them carry the same trace_id, events of
\* different sessions carry different trace_ids, and the first event of a
\* session after its reset carries a trace_id no earlier event carried.
C18_TraceIdPerSession ==
    LET log == LogOf(lastOp)
    IN  /\ \A i, j \in EventsAt :
            /\ (i < j /\ log[i].session_id = log[j].session_id
                      /\ ~\E r \in ResetsOf(log[i].session_id) : i < r /\ r < j)
                    => log[i].trace_id = log[j].trace_id
            /\ log[i].session_id # log[j].session_id
                    => log[i].trace_id # log[j].trace_id
        /\ \A j \in EventsAt : \A r \in ResetsOf(log[j].session_id) :
            (r < j /\ ~\E k \in EventsAt :
                         log[k].session_id = log[j].session_id /\ r < k /\ k < j)
                => \A k \in EventsAt : k < j => log[k].trace_id # log[j].trace_id

\* an event of a session, its reset, an event of it again, and an event of
\* another session
C18_Witness ==
    LET log == LogOf(lastOp)
    IN  /\ Len(log) = 4
        /\ log[1].op = "to_span" /\ log[1].session_id = Str("A")
        /\ log[2].op = "reset_session" /\ log[2].session_id = Str("A")
        /\ log[3].op = "to_span" /\ log[3].session_id = Str("A")
        /\ log[3].trace_id # log[1].trace_id
        /\ log[4].op = "to_span" /\ log[4].session_id = Str("unknown")

\* the fields of a normalized record other than the archived line it keeps
NormalizedFields ==
    {"tool_name", "timestamp", "hook_type", "session_id", "tool_input",
     "working_dir", "model", "input_tokens", "output_tokens",
     "cache_read_tokens", "cost_usd", "ai_response"}

\* C19: a legacy-shaped record and a current-shaped record that carry the
\* same content normalize to records equal in every field (the archived line
\* kept under _raw aside).
C19_ShapeEquivalence ==
    (/\ lastOp.op = "load_recent_traces"
     /\ ~lastOp.raised
     /\ Len(lastOp.traces) = 2) =>
        \A f \in NormalizedFields : lastOp.traces[1][f] = lastOp.traces[2][f]

\* C20: the input and the output payload of the normalized event are the
\* raw payloads normalized: a mapping unchanged, a string s as {"value": s},
\* a missing or null payload as {}, any other scalar x (0 and the empty
\* string included) as {"value": str(x)}.
C20_PayloadNormalized ==
    (lastOp.op = "to_span" /\ lastOp.converted) =>
        /\ lastOp.span.input_data = _normalize_input(Get(lastOp.hook_data, "tool_input"))
        /\ lastOp.span.output_data = _normalize_output(Get(lastOp.hook_data, "tool_output"))

\* the injection at position i of the log blocked session s
BlocksAt(i, s) ==
    /\ LogOf(lastOp)[i].op = "inject_fix"
    /\ ~LogOf(lastOp)[i].raised
    /\ LogOf(lastOp)[i].level \in {"block", "terminate"}
    /\ LogOf(lastOp)[i].session_id = s

\* the call at position i of the log unblocked session s
UnblocksAt(i, s) ==
    LogOf(lastOp)[i].op = "unblock_session" /\ LogOf(lastOp)[i].session_id = s

\* C21: on one adapter a session is blocked iff a BLOCK or TERMINATE
\* injection for it came after its last unblock_session; unblock_session
\* returns true iff the session was blocked; SUGGEST and DIRECT injections
\* and calls for other sessions leave the session's status as it was.
C21_BlockedIffInjected ==
    LET log == LogOf(lastOp)
    IN  lastOp.op \in {"inject_fix", "unblock_session"} =>
        \A s \in Sessions :
            /\ is_session_blocked(_blocked_sessions, s)
                   <=> \E i \in 1..Len(log) :
                          BlocksAt(i, s) /\ ~\E j \in (i+1)..Len(log) : UnblocksAt(j, s)
            /\ \A i \in 1..Len(log) :
                   /\ UnblocksAt(i, s) => (log[i].result <=> s \in log[i].before)
                   /\ (log[i].session_id # s \/ log[i].level \in {"suggest", "direct"})
                          => (s \in log[i].before <=> s \in log[i].after)

\* a session blocked, a DIRECT injection for it, then its unblocking
C21_Witness ==
    LET log == LogOf(lastOp)
    IN  /\ lastOp.op = "unblock_session"
        /\ Len(log) = 3
        /\ BlocksAt(1, Str("A"))
        /\ log[2].op = "inject_fix" /\ log[2].level = "direct"
        /\ log[2].session_id = Str("A") /\ Str("A") \in log[2].after
        /\ UnblocksAt(3, Str("A")) /\ log[3].result
        /\ ~is_session_blocked(_blocked_sessions, Str("A"))

\* the rows of rws that are not stored under session s, in their order
RECURSIVE RowsNotOf(_, _)
RowsNotOf(rws, s) ==
    IF rws = <<>> THEN <<>>
    ELSE (IF Head(rws).session_id = s THEN <<>> ELSE <<Head(rws)>>)
             \o RowsNotOf(Tail(rws), s)

\* C22: clear_session(S) returns the number of index rows stored under S;
\* afterwards get_recent(session_id=S) is empty, the rows of every other
\* session are as before, and clear_session(S) again returns 0.
C22_ClearSession ==
    lastOp.op = "clear_session" =>
        /\ lastOp.count = Cardinality({i \in 1..Len(lastOp.before) :
                                          lastOp.before[i].session_id = lastOp.session_id})
        /\ get_recent(columns, rows, MaxStored, lastOp.session_id) = {<<>>}
        /\ rows = RowsNotOf(lastOp.before, lastOp.session_id)
        /\ clear_session(columns, rows, lastOp.session_id).count = 0

\* a session with a row is cleared while another session has a row
C22_Witness ==
    /\ lastOp.op = "clear_session"
    /\ lastOp.count = 1
    /\ Len(lastOp.before) = 2
    /\ Len(rows) = 1
    /\ rows[1].session_id # lastOp.session_id

\* C23: the capture hook exits with status 0 for every stdin content and
\* every failure of normalization, of the append-log write and of the index
\* write, with the package installed and on the fallback path.
C23_CaptureExitsZero ==
    lastOp.op \in {"capture", "fallback_capture"} => lastOp.exit = 0

\* C24: when tokenization is disabled, the tokenizer is unavailable, or
\* tokenizing a field raises (also after earlier fields were tokenized),
\* tokenize_trace_data returns the original trace, every field unchanged.
C24_TokenizationFailOpen ==
    (/\ lastOp.op = "tokenize_trace_data"
     /\ (~lastOp.enabled \/ ~lastOp.available \/ lastOp.failed)) =>
        lastOp.result = lastOp.trace

\* the tokenizer raises on the second field after it tokenized the first
C24_Witness ==
    /\ lastOp.op = "tokenize_trace_data"
    /\ lastOp.enabled /\ lastOp.available /\ lastOp.failed
    /\ lastOp.failsAt = 2
    /\ lastOp.trace["tool_input"] = Str("pii")
    /\ lastOp.result = lastOp.trace

\* C25: in the output of sanitize_input, and so in the sync payload, every
\* value under a key whose name contains api_key, password, secret, token or
\* credential is "[REDACTED]", every string of more than 500 characters is
\* truncated, and every other value is as it was (the values of file_path
\* and path, which are anonymized, aside).
C25_SecretsRedacted ==
    lastOp.op = "prepare_sync_payload" =>
        LET inp == lastOp.t.tool_input
            out == lastOp.clean.tool_input
        IN  /\ \A k \in InputKeys : inp[k].k # "absent" =>
                   /\ Sensitive(k) => out[k] = Redacted
                   /\ (~Sensitive(k) /\ k \notin PathKeys) =>
                          /\ out[k] # SecretMap
                          /\ IsLong(inp[k]) => out[k] = Truncated(inp[k])
                          /\ (~IsLong(inp[k]) /\ inp[k] # SecretMap) => out[k] = inp[k]
            /\ lastOp.clean.tool_output # SecretMap

\* the positions of the trace handed to detection that hold the event with
\* this span_id
PositionsOf(span_id) ==
    {i \in 1..Len(lastOp.trace) : lastOp.trace[i].span_id = span_id}

\* C26: the event being analysed, stored and read back with the recent
\* window, is in the trace handed to detection exactly once.
C26_AnalysedEventOnce ==
    (lastOp.op = "analyze" /\ lastOp.trace # <<>>) =>
        Cardinality(PositionsOf(jsonl[Len(jsonl)].span.span_id)) = 1

\* C27: load_recent_traces(n) returns the n traces written last (all of them
\* when there are fewer), however the lines are spread over the files of
\* the dates; for n <= 0 it returns the empty list.
C27_LoadsMostRecent ==
    (lastOp.op = "load_recent_traces" /\ ~lastOp.raised) =>
        LET m == Min(lastOp.n, lastOp.written)
        IN  /\ Len(lastOp.traces) = m
            /\ {lastOp.traces[i].timestamp : i \in 1..Len(lastOp.traces)} =
                   {Str(ToString(j)) : j \in (lastOp.written - m + 1)..lastOp.written}

\* the detector of this name fired in the detection results l
FiredIn(l, name) ==
    \E i \in 1..Len(l) : l[i].detected /\ l[i].detector_name = name

\* the loop detector fired in l with a severity of at least CriticalSeverity
CriticalLoopIn(l) ==
    \E i \in 1..Len(l) :
        l[i].detected /\ l[i].detector_name = "loop" /\ l[i].severity >= CriticalSeverity

\* C28: the recommendation is a function of the fired detectors, in every
\* order of the detection results: escalate whenever coordination fired;
\* with only the loop detector fired, break_loop from severity 60 on and
\* switch_strategy below; break_loop with only repetition fired and when
\* none of the three fired.
C28_RecommendationOfFired ==
    lastOp.op = "get_recommendation" =>
        LET l == lastOp.detection_results
            r == lastOp.recommendation
        IN  /\ FiredIn(l, "coordination") => r = "escalate"
            /\ (FiredIn(l, "loop") /\ ~FiredIn(l, "repetition")
                    /\ ~FiredIn(l, "coordination")) =>
                   r = IF CriticalLoopIn(l) THEN "break_loop" ELSE "switch_strategy"
            /\ (FiredIn(l, "repetition") /\ ~FiredIn(l, "loop")
                    /\ ~FiredIn(l, "coordination")) => r = "break_loop"
            /\ (~FiredIn(l, "loop") /\ ~FiredIn(l, "repetition")
                    /\ ~FiredIn(l, "coordination")) => r = "break_loop"
            /\ \A o \in DetectionLists :
                   {o[i] : i \in 1..Len(o)} = {l[i] : i \in 1..Len(l)}
                       => _get_recommendation(o) = r

\* the calls for session s that the audit log records as auto_fixed
AutoFixedCalls(s) ==
    {i \in 1..Len(audit) : audit[i].action = "auto_fixed" /\ audit[i].session_id = s}

\* C29: in auto mode, over any sequence of analyze_sync calls made by the
\* hook for one session, at most max_auto_fixes calls end with auto_fixed.
C29_CapThroughHook ==
    config.mode = "auto" =>
        \A s \in Sessions : Cardinality(AutoFixedCalls(s)) <= config.max_auto_fixes

\* C30: once a session has been blocked or terminated, every later analyze
\* call for that session returns should_block = true until unblock_session
\* is called for it, whatever the severity of the later call.
C30_BlockedStaysBlocked ==
    (Analyzed /\ AnalyzedSession \in lastOp.before.blocked) =>
        lastOp.result.should_block

\* the audit log of the last analyze call grew by exactly one warning record
WarningLogged ==
    /\ Len(audit) = Len(lastOp.before.audit) + 1
    /\ SubSeq(audit, 1, Len(lastOp.before.audit)) = lastOp.before.audit
    /\ audit[Len(audit)].event = "warning"

\* C33: when the combined severity is below the threshold, analyze performs
\* no enforcement: no alert is written, no directive is injected, fix counters
\* and the blocked sessions are unchanged; an audit warning record is written
\* iff the severity is within 10 points of the threshold and at least one
\* issue was found.
C33_NoEnforcementBelowThreshold ==
    (Analyzed /\ CombinedSeverity < config.severity_threshold) =>
        /\ alert = lastOp.before.alert
        /\ lastOp.injected = <<>>
        /\ _fix_counts = lastOp.before.fix_counts
        /\ _blocked_sessions = lastOp.before.blocked
        /\ IF CombinedSeverity >= config.severity_threshold - 10
              /\ lastOp.result.issues # <<>>
           THEN WarningLogged
           ELSE audit = lastOp.before.audit

\* a call close below the threshold for which no issue was found
C33_Witness ==
    /\ Analyzed
    /\ CombinedSeverity < config.severity_threshold
    /\ CombinedSeverity >= config.severity_threshold - 10
    /\ lastOp.result.issues = <<>>
    /\ lastOp.before.audit # <<>>

\* C34: when the guardian is disabled, analyze returns action_taken
\* "disabled" with should_block false and has no effect: the append log, the
\* index, the alert, the audit log, the fix counters and the blocked sessions
\* are as they were before the call.
C34_DisabledNoEffect ==
    [][(lastOp'.op = "analyze" /\ ~config.enabled) =>
          /\ ~lastOp'.raised
          /\ lastOp'.result.action_taken = "disabled"
          /\ ~lastOp'.result.should_block
          /\ UNCHANGED <<jsonl, rows, nextRowId, columns, indexes, alert, audit,
                         _fix_counts, _blocked_sessions>>]_vars

\* a disabled guardian has analysed a call on a store that holds an event
C34_Witness ==
    /\ lastOp.op = "analyze"
    /\ ~config.enabled
    /\ rows # <<>>
    /\ jsonl # <<>>

\* the value of a field resolved from two keys when the first is preferred
Preferred(first, second) == IF first # Absent THEN first ELSE second

\* C35: for each logical field that normalize_trace resolves from two shapes
\* (tool name, timestamp, hook type, input payload) the current-shape key is
\* preferred: the normalized field takes the current-shape value when the
\* record carries it, and the legacy value only when the current key is absent.
C35_CurrentShapePreferred ==
    (lastOp.op = "normalize_trace" /\ ~lastOp.raised) =>
        LET t == lastOp.t
            n == lastOp.trace
        IN  /\ (t["name"] # Absent \/ t["tool_name"] # Absent) =>
                   n.tool_name = Preferred(t["name"], t["tool_name"])
            /\ (t["start_time"] # Absent \/ t["timestamp"] # Absent) =>
                   n.timestamp = Preferred(t["start_time"], t["timestamp"])
            /\ (t["attributes.hook_type"] # Absent \/ t["hook_type"] # Absent) =>
                   n.hook_type = LongHookType(Preferred(t["attributes.hook_type"],
                                                        t["hook_type"]))
            /\ (t["input_data"] # Absent \/ t["tool_input"] # Absent) =>
                   n.tool_input = Preferred(t["input_data"], t["tool_input"])

\* the line a store call of an event and its raw payload has to append
LineOf(span, raw) == [file |-> DateOf(span.start_time), span |-> span, raw |-> raw]

\* C36: the append log is append-only: each store call (one that returns)
\* adds exactly one line, the event plus the raw payload when supplied, to
\* the partition of the event's date, and no operation, clear_session and
\* re-opening the store included, changes or removes a line already written.
C36_AppendOnly ==
    [][/\ Len(jsonl') >= Len(jsonl)
       /\ SubSeq(jsonl', 1, Len(jsonl)) = jsonl
       /\ (lastOp'.op = "store" /\ ~lastOp'.raised) =>
              jsonl' = Append(jsonl, LineOf(lastOp'.span, lastOp'.raw))
       /\ (lastOp'.op = "capture" /\ lastOp'.converted /\ ~lastOp'.jsonlFails) =>
              jsonl' = Append(jsonl, LineOf(lastOp'.span, HookData(lastOp'.stdin)))
       /\ lastOp'.op \in {"clear_session", "init_db"} => jsonl' = jsonl]_vars

\* a session has been cleared from the index while the log holds a line in
\* each of two date partitions
C36_Witness ==
    /\ lastOp.op = "clear_session"
    /\ lastOp.count > 0
    /\ Len(jsonl) = 2
    /\ jsonl[1].file # jsonl[2].file

\* the event ids of the index and of the append log
IndexedIds == {rows[i].span_id : i \in 1..Len(rows)}
LoggedIds == {jsonl[i].span.span_id : i \in 1..Len(jsonl)}

\* C37: in every state of a store used only through store and clear_session,
\* every event id present in the index is also present in the append log,
\* whichever of the two writes failed.
C37_IndexWithinLog == IndexedIds \subseteq LoggedIds

\* a store call whose append failed, on a store that holds an event already
C37_Witness ==
    /\ lastOp.op = "store"
    /\ lastOp.jsonlFails
    /\ lastOp.raised
    /\ rows # <<>>
    /\ lastOp.span.span_id \notin LoggedIds

\* C38: the fix counter of a session changes only when an auto-mode fix is
\* applied for that same session, and then by exactly +1; allowed, report,
\* manual and escalated outcomes, calls for other sessions and unblock_session
\* leave it unchanged, and it never decreases.
C38_FixCounterFrame ==
    [][\A s \in Sessions :
          LET old == FixCount(_fix_counts, s)
              new == FixCount(_fix_counts', s)
              fixed == /\ lastOp'.op = "analyze"
                       /\ ~lastOp'.raised
                       /\ lastOp'.result.action_taken = "auto_fixed"
                       /\ lastOp'.hook_data["session_id"] = s
          IN  /\ new >= old
              /\ fixed => (config.mode = "auto" /\ new = old + 1)
              /\ ~fixed => new = old]_vars

\* a fix was applied for session A and one for session B, and A was
\* unblocked since
C38_Witness ==
    /\ lastOp.op = "unblock_session"
    /\ FixCount(_fix_counts, Str("A")) = 1
    /\ FixCount(_fix_counts, Str("B")) = 1

\* C31: when several processes open the store concurrently on an old-schema
\* table, possibly while other processes are writing, every open completes
\* and, once all of them have finished, all newer columns exist: no
\* interleaving leaves the table with only part of the newer columns.
C31_ConcurrentMigration ==
    (\A p \in Openers : procs[p].pc = "done") => NewCols \subseteq columns

\* the lines of the append log that carry the event of process p
LinesOf(p) == {i \in 1..Len(jsonl) : jsonl[i].span.span_id = procs[p].span.span_id}

\* C32: for any interleaving of store calls made by several processes on the
\* same date partition and the same index, every call terminates, each event
\* appears in the append log as exactly one complete line, and no store call
\* holds an index connection open after it returns, also when its write
\* failed.
C32_ConcurrentStores ==
    /\ (\E p \in StoreProcs : procs[p].pc # "returned") => ENABLED NextWriters
    /\ \A p \in StoreProcs :
          procs[p].pc = "returned" =>
              /\ Cardinality(LinesOf(p)) = 1
              /\ ~procs[p].conn

====
